---- MODULE Spec2Model ----
(***************************************************************************)
(* A model of lmcore's concurrency core: the four bounded channels         *)
(* (spsc_channel.h, mpsc_channel.h, spmc_channel.h, mpmc_channel.h), the   *)
(* thread pool (thread_pool.h), the async timer (async_timer.cpp) and the  *)
(* circular queue (circular_queue.h).                                      *)
(*                                                                         *)
(* Channels.  Every atomic load, store and compare-exchange of the queue   *)
(* code is one step.  The slots are std::optional<T> objects that are read *)
(* and written without synchronisation of their own: a slot is a record    *)
(* [engaged, val], emplace() takes two steps (its two stores may become    *)
(* visible in either order) and a copy assignment takes a read step and a  *)
(* write step.  A call ends in a state that shows what it returns          *)
(* (pc = "retTrue", "retNullopt", ...); the next step takes the thread     *)
(* back to "idle".  Locals that are dead after the comparison they feed    *)
(* (TryPush's h, TryPop's t) are not kept in the frame.                    *)
(*                                                                         *)
(* Thread pool.  thread_pool.cpp is not in the source tree; the pool       *)
(* follows the design document (section 4.2), with the names of the        *)
(* members that thread_pool.h declares.  Its operations run under the      *)
(* pool's mutex and are one step each; Shutdown() is two, the signal and   *)
(* the return from the join of the workers.                                *)
(*                                                                         *)
(* Timer.  The blocks of async_timer.cpp that hold mutex_ are one step     *)
(* each; what a function does outside the mutex is a step of its own:      *)
(* the checks and the id of a Schedule call, its notify_one(), the         *)
(* notify_all(), the join and the reset of Stop(), the worker's test of    *)
(* shouldStop_.  A notify marks the threads it wakes (ntf); a wait of the  *)
(* worker ends when its predicate holds or its time is reached, and a      *)
(* thread that is woken with its predicate false waits again.  Only the    *)
(* wake-ups by a notify or by the clock are sure to happen.  The           *)
(* wrappedCallback that the pool runs reads isCancelled and calls the      *)
(* callback without the mutex, in two steps.  Cancel() and CancelAll()     *)
(* are one locked block each; cancelRet keeps what the last Cancel() call  *)
(* returned and cancelledAll the ids that a CancelAll() call has marked.   *)
(*                                                                         *)
(* Clear() of a channel is one step, taken while no TryPush or TryPop is   *)
(* in progress; clears counts the calls.                                   *)
(*                                                                         *)
(* Circular queue.  Every member function of circular_queue.h holds        *)
(* mutex_ from its first line to its return and is one step; cqRet keeps   *)
(* what the last call returned and pushed numbers the values.              *)
(***************************************************************************)
EXTENDS Integers, Sequences, FiniteSets, TLC

\* ------------------------------------------------------------------ bounds
\* Capacities asked of the factories are 0..MaxCapacity.
MaxCapacity == 2

\* Sender threads of MPSC and MPMC; receiver threads of SPMC and MPMC.
NumProducers == 2

NumConsumers == 2

\* Values the senders send in total.
MaxSends == 3

\* Clear() calls made in one run.
MaxClears == 1

\* constexpr int max_spin_count = 100;
max_spin_count == 100

VARIABLES
    variant,    \* which channel: "spsc", "mpsc", "spmc", "mpmc"
    asked,      \* the capacity the factory was called with
    capacity_,  \* the queue's capacity_
    buffer_,    \* slot index -> [engaged, val]
    head_,      \* std::atomic<uint64_t> head_
    tail_,      \* std::atomic<uint64_t> tail_
    closed_,    \* the shared std::atomic<bool>
    prod,       \* sender thread -> its call frame
    cons,       \* receiver thread -> its call frame
    recvd,      \* history: the [idx, val] that TryPop returned: in return order
                \* for one receiver, in index order for several (whose
                \* returns are not ordered in time)
    closeEarly, \* history: Close() ran while a sender still had work to do
    atClose,    \* history: head_ and tail_ when Close() first ran
    solo,       \* the threads make their calls one at a time (a sequential test)
    clears      \* history: the Clear() calls that have returned

chanVars == <<variant, asked, capacity_, buffer_, head_, tail_, closed_, prod,
              cons, recvd, closeEarly, atClose, solo, clears>>

VARIABLES
    tasks_,                 \* thread pool: the queue of untagged task items
    serialTasks_,           \* the map: a tag that has an entry -> its queue
    runningSerialTags_,     \* tags a worker is running a task of
    availableSerialTags_,   \* queue of tags with work and no runner
    threads_,               \* worker -> [st, item]
    shutdown_,              \* the pool is shutting down
    shutPc,                 \* the position of the thread inside Shutdown()
    nextTask,               \* history: AddTask calls made so far, plus one
    started,                \* history: the task items in the order they started
    shutReturned            \* history: Shutdown() calls that have returned

poolVars == <<tasks_, serialTasks_, runningSerialTags_, availableSerialTags_,
              threads_, shutdown_, shutPc, nextTask, started, shutReturned>>

VARIABLES
    running_,       \* timer: std::atomic<bool> running_
    shouldStop_,    \* std::atomic<bool> shouldStop_
    timerTasks_,    \* the multimap, as its sequence of [at, id] in iteration order
    timerMap_,      \* the ids that are keys of timerMap_
    timers,         \* id -> the TimerTask object that the handles share
    nextTimerId_,   \* std::atomic<TimerId> nextTimerId_
    now,            \* steady_clock
    twork,          \* the std::threads that Start() created -> [pc, until, ntf]
    workerThread_,  \* the thread that workerThread_ holds, 0 for nullptr
    stopPc,         \* the position of the thread inside Stop()
    aborted,        \* std::terminate() was called
    poolDown,       \* threadPool_->Shutdown() was called
    sched,          \* scheduling thread -> its frame inside a Schedule call
    wrapQueue,      \* the wrappedCallbacks handed to the thread pool, by task id
    wrapExec,       \* pool worker -> [pc, id]: the wrapper it runs
    dispatched,     \* history: the ids given to threadPool_->AddTask, in order
    cancelled,      \* history: ids for which Cancel returned true
    lateFired,      \* history: ids whose callback started after that
    returnedIds,    \* history: the ids that Schedule calls returned, in order
    cancelRet,      \* the last Cancel call that returned: [id, ret]
    cancelledAll    \* history: the ids that a CancelAll call marked

timerVars == <<running_, shouldStop_, timerTasks_, timerMap_, timers, nextTimerId_,
               now, twork, workerThread_, stopPc, aborted, poolDown, sched,
               wrapQueue, wrapExec, dispatched, cancelled, lateFired,
               returnedIds, cancelRet, cancelledAll>>

VARIABLES
    cq,         \* the CircularQueue: [capacity_, buffer_, head_, tail_, size_]
    cqRet,      \* what the last call on the queue returned: [op, ok, val]
    pushed      \* the values that entered the queue so far; the next is pushed + 1

cqVars == <<cq, cqRet, pushed>>

vars == <<chanVars, poolVars, timerVars, cqVars>>

\* ------------------------------------------------------------------ channel: data
Variants == {"spsc", "mpsc", "spmc", "mpmc"}

MultiProducer == variant \in {"mpsc", "mpmc"}

MultiConsumer == variant \in {"spmc", "mpmc"}

Senders == IF MultiProducer THEN 1..NumProducers ELSE {1}

Receivers == IF MultiConsumer THEN 1..NumConsumers ELSE {1}

\* The payload of a slot that was never constructed.
Garbage == 0

\* The values sent all differ: each is named by the ring index i that its
\* sender reserves for it (the tail_ value its push started from).
ValueAt(i) == i + 1

EmptySlot == [engaged |-> FALSE, val |-> Garbage]

\* A constructor that takes the capacity as it is given.
CoerceCapacity_AsGiven(n) == n

\* capacity_(capacity == 0 ? 1 : capacity)
CoerceCapacity(n) == IF n = 0 THEN 1 ELSE n

\* t % capacity_
SlotOf(i) == i % capacity_

\* A full check that is off by one: (t - h) > capacity_.
FullDiff_OffByOne(t, h) == IF t >= h THEN (t - h) > capacity_ ELSE TRUE

\* (t - h) >= capacity_ on uint64_t: for t < h the difference wraps to
\* 2^64 - (h - t), which is above every capacity the model builds.
FullDiff(t, h) == IF t >= h THEN (t - h) >= capacity_ ELSE TRUE

IdleProd == [pc |-> "idle", op |-> "none", t |-> 0]

IdleCons == [pc |-> "idle", op |-> "none", h |-> 0, slot |-> 0,
             tmp |-> EmptySlot, res |-> Garbage]

\* Values the channel holds by the count of reserved and returned values.
Held == tail_ - Len(recvd)

AllIdle ==
    /\ \A p \in 1..NumProducers : prod[p].pc = "idle"
    /\ \A c \in 1..NumConsumers : cons[c].pc = "idle"

\* A thread may begin a call.
MayCall == solo => AllIdle

\* The pcs of a sender between the start of its call and the step that
\* reserves its ring index (the compare-exchange, or the store of tail_).
Unreserved ==
    IF MultiProducer THEN {"sendChk", "loadT", "loadH", "cas"}
    ELSE {"sendChk", "loadT", "loadH", "emplace", "emplace2", "storeT"}

\* The senders have a value left to send.
MaySend == tail_ + Cardinality({p \in 1..NumProducers : prod[p].pc \in Unreserved}) < MaxSends

\* The constructors: SpscCircularQueue(capacity) and its three siblings,
\* and the factory's closed flag.
InitChannel(vs, ns, alone) ==
    /\ variant \in vs
    /\ asked \in ns
    /\ capacity_ = CoerceCapacity(asked)
    /\ buffer_ = [i \in 0..(CoerceCapacity(asked) - 1) |-> EmptySlot]
    /\ head_ = 0
    /\ tail_ = 0
    /\ closed_ = FALSE
    /\ prod = [p \in 1..NumProducers |-> IdleProd]
    /\ cons = [c \in 1..NumConsumers |-> IdleCons]
    /\ recvd = <<>>
    /\ closeEarly = FALSE
    /\ atClose = [head |-> 0, tail |-> 0]
    /\ solo = alone
    /\ clears = 0

\* ------------------------------------------------------------------ channel: threads
ProdDone == {"retTrue", "retFalse"}

ConsDone == {"retValue", "retNullopt", "retSize", "threw"}

\* No call is at its return.  The step from a return state back to "idle"
\* is local to its thread and is taken before any other thread runs: no
\* interleaving of the accesses to the channel is lost by that.
Running ==
    /\ \A p \in 1..NumProducers : prod[p].pc \notin ProdDone
    /\ \A c \in 1..NumConsumers : cons[c].pc \notin ConsDone

\* Sender p, or receiver c, is at label l and may take its step.
ProdAt(p, l) == prod[p].pc = l /\ p \in Senders /\ Running

ConsAt(c, l) == cons[c].pc = l /\ c \in Receivers /\ Running

\* ------------------------------------------------------------------ channel: senders
\* Sender::TrySend(value) { return queue_->TryPush(std::move(value)); }
TrySend(p) ==
    /\ ProdAt(p, "idle")
    /\ MaySend
    /\ MayCall
    /\ prod' = [prod EXCEPT ![p] = [@ EXCEPT !.pc = "loadT", !.op = "TrySend"]]
    /\ UNCHANGED <<variant, asked, capacity_, buffer_, head_, tail_, closed_, cons,
                   recvd, closeEarly, atClose, solo, clears, poolVars, timerVars, cqVars>>

\* Sender::Send(value): the call begins.
Send(p) ==
    /\ ProdAt(p, "idle")
    /\ MaySend
    /\ MayCall
    /\ prod' = [prod EXCEPT ![p] = [@ EXCEPT !.pc = "sendChk", !.op = "Send"]]
    /\ UNCHANGED <<variant, asked, capacity_, buffer_, head_, tail_, closed_, cons,
                   recvd, closeEarly, atClose, solo, clears, poolVars, timerVars, cqVars>>

\* A Send whose loop would not test closed_.
SendCheckClosed_Ignores(p) ==
    /\ ProdAt(p, "sendChk")
    /\ prod' = [prod EXCEPT ![p] = [@ EXCEPT !.pc = "loadT"]]
    /\ UNCHANGED <<variant, asked, capacity_, buffer_, head_, tail_, closed_, cons,
                   recvd, closeEarly, atClose, solo, clears, poolVars, timerVars, cqVars>>

\* while (!closed_->load(acquire)) { ... } return false;
SendCheckClosed(p) ==
    /\ ProdAt(p, "sendChk")
    /\ prod' = [prod EXCEPT ![p] =
                   [@ EXCEPT !.pc = IF closed_ THEN "retFalse" ELSE "loadT"]]
    /\ UNCHANGED <<variant, asked, capacity_, buffer_, head_, tail_, closed_, cons,
                   recvd, closeEarly, atClose, solo, clears, poolVars, timerVars, cqVars>>

\* uint64_t t = tail_.load(relaxed);
PushLoadTail(p) ==
    /\ ProdAt(p, "loadT")
    /\ prod' = [prod EXCEPT ![p] = [@ EXCEPT !.t = tail_, !.pc = "loadH"]]
    /\ UNCHANGED <<variant, asked, capacity_, buffer_, head_, tail_, closed_, cons,
                   recvd, closeEarly, atClose, solo, clears, poolVars, timerVars, cqVars>>

\* uint64_t h = head_.load(acquire); if ((t - h) >= capacity_) return false;
\* A failed TryPush ends TrySend, and sends Send round its loop (yield).
PushLoadHead(p) ==
    /\ ProdAt(p, "loadH")
    /\ prod' = [prod EXCEPT ![p] =
                   IF FullDiff(prod[p].t, head_)
                   THEN [@ EXCEPT !.t = 0,
                            !.pc = IF prod[p].op = "Send" THEN "sendChk" ELSE "retFalse"]
                   ELSE [@ EXCEPT !.pc = IF MultiProducer THEN "cas" ELSE "emplace"]]
    /\ UNCHANGED <<variant, asked, capacity_, buffer_, head_, tail_, closed_, cons,
                   recvd, closeEarly, atClose, solo, clears, poolVars, timerVars, cqVars>>

\* if (tail_.compare_exchange_weak(t, t + 1, acq_rel, relaxed)): it succeeds.
PushCas(p) ==
    /\ ProdAt(p, "cas")
    /\ tail_ = prod[p].t
    /\ tail_' = tail_ + 1
    /\ prod' = [prod EXCEPT ![p] = [@ EXCEPT !.pc = "emplace"]]
    /\ UNCHANGED <<variant, asked, capacity_, buffer_, head_, closed_, cons,
                   recvd, closeEarly, atClose, solo, clears, poolVars, timerVars, cqVars>>

\* The compare-exchange fails (tail_ has moved, or the weak form fails
\* spuriously): round the while (true) loop.
PushCasFail(p) ==
    /\ ProdAt(p, "cas")
    /\ prod' = [prod EXCEPT ![p] = [@ EXCEPT !.pc = "loadT", !.t = 0]]
    /\ UNCHANGED <<variant, asked, capacity_, buffer_, head_, tail_, closed_, cons,
                   recvd, closeEarly, atClose, solo, clears, poolVars, timerVars, cqVars>>

\* buffer_[t % capacity_].emplace(value), its first visible store: the
\* payload (a value the slot still held is destroyed), or the engaged flag.
PushEmplace(p) ==
    /\ ProdAt(p, "emplace")
    /\ \E flagFirst \in BOOLEAN :
          buffer_' = [buffer_ EXCEPT ![SlotOf(prod[p].t)] =
                         IF flagFirst THEN [@ EXCEPT !.engaged = TRUE]
                         ELSE [engaged |-> FALSE, val |-> ValueAt(prod[p].t)]]
    /\ prod' = [prod EXCEPT ![p] = [@ EXCEPT !.pc = "emplace2"]]
    /\ UNCHANGED <<variant, asked, capacity_, head_, tail_, closed_, cons,
                   recvd, closeEarly, atClose, solo, clears, poolVars, timerVars, cqVars>>

\* emplace's second store: the slot holds the value.  The multi-producer
\* TryPush returns true here.
PushEmplaceDone(p) ==
    /\ ProdAt(p, "emplace2")
    /\ buffer_' = [buffer_ EXCEPT ![SlotOf(prod[p].t)] =
                      [engaged |-> TRUE, val |-> ValueAt(prod[p].t)]]
    /\ prod' = [prod EXCEPT ![p] =
                   [@ EXCEPT !.pc = IF MultiProducer THEN "retTrue" ELSE "storeT"]]
    /\ UNCHANGED <<variant, asked, capacity_, head_, tail_, closed_, cons,
                   recvd, closeEarly, atClose, solo, clears, poolVars, timerVars, cqVars>>

\* SPSC, SPMC: tail_.store(t + 1, release); return true;
PushStoreTail(p) ==
    /\ ProdAt(p, "storeT")
    /\ tail_' = prod[p].t + 1
    /\ prod' = [prod EXCEPT ![p] = [@ EXCEPT !.pc = "retTrue"]]
    /\ UNCHANGED <<variant, asked, capacity_, buffer_, head_, closed_, cons,
                   recvd, closeEarly, atClose, solo, clears, poolVars, timerVars, cqVars>>

\* The call has returned: the sender is free for its next call.
SendReturn(p) ==
    /\ prod[p].pc \in ProdDone
    /\ prod' = [prod EXCEPT ![p] = IdleProd]
    /\ UNCHANGED <<variant, asked, capacity_, buffer_, head_, tail_, closed_, cons,
                   recvd, closeEarly, atClose, solo, clears, poolVars, timerVars, cqVars>>

\* Sender::IsClosed() and Receiver::IsClosed():
\* return closed_->load(acquire); on the flag all endpoints share.
IsClosed == closed_

\* A Close() that would store the negation of the flag.
Close_Reopen ==
    /\ Running
    /\ MayCall
    /\ closed_' = ~closed_
    /\ closeEarly' = closeEarly
    /\ atClose' = atClose
    /\ UNCHANGED <<variant, asked, capacity_, buffer_, head_, tail_, prod, cons,
                   recvd, solo, clears, poolVars, timerVars, cqVars>>

\* Sender::Close() { closed_->store(true, release); }
Close ==
    /\ Running
    /\ MayCall
    /\ closed_' = TRUE
    /\ closeEarly' = IF closed_ THEN closeEarly
                     ELSE (MaySend \/ \E p \in Senders : prod[p].pc # "idle")
    /\ atClose' = IF closed_ THEN atClose ELSE [head |-> head_, tail |-> tail_]
    /\ UNCHANGED <<variant, asked, capacity_, buffer_, head_, tail_, prod, cons,
                   recvd, solo, clears, poolVars, timerVars, cqVars>>

\* The slots that the loop of Clear() passes: those of the indices h, h + 1,
\* ... up to t; with h above t the uint64_t index wraps and the loop passes
\* every slot.
ClearedSlots ==
    IF head_ <= tail_ THEN {SlotOf(k) : k \in head_..(tail_ - 1)} ELSE DOMAIN buffer_

\* Clear(), called while no thread is inside a push or a pop: h = head_, t
\* = tail_; while (h != t) { buffer_[h % capacity_].reset(); ++h; }
\* head_.store(t).
Clear ==
    /\ Running
    /\ AllIdle
    /\ clears < MaxClears
    /\ buffer_' = [i \in DOMAIN buffer_ |->
                      IF i \in ClearedSlots THEN [buffer_[i] EXCEPT !.engaged = FALSE]
                      ELSE buffer_[i]]
    /\ head_' = tail_
    /\ clears' = clears + 1
    /\ UNCHANGED <<variant, asked, capacity_, tail_, closed_, prod, cons, recvd,
                   closeEarly, atClose, solo, poolVars, timerVars, cqVars>>

\* ------------------------------------------------------------------ channel: receivers
\* History only: r put into the records rs, which are kept in index order.
RECURSIVE InIndexOrder(_, _)
InIndexOrder(rs, r) ==
    IF rs = <<>> THEN <<r>>
    ELSE IF r.idx < Head(rs).idx \/ (r.idx = Head(rs).idx /\ r.val <= Head(rs).val)
         THEN <<r>> \o rs
         ELSE <<Head(rs)>> \o InIndexOrder(Tail(rs), r)

\* TryPop returns std::nullopt (t == h).  Recv's loop yields and tests
\* closed_ again; TryRecv, and the TryPop that ends Recv, return it.
PopNothing(f) ==
    [f EXCEPT !.h = 0, !.slot = 0,
              !.pc = IF f.op = "Recv" THEN "recvChk" ELSE "retNullopt"]

\* Receiver::TryRecv() { return queue_->TryPop(); }
TryRecv(c) ==
    /\ ConsAt(c, "idle")
    /\ MayCall
    /\ cons' = [cons EXCEPT ![c] = [@ EXCEPT !.pc = "loadH", !.op = "TryRecv"]]
    /\ UNCHANGED <<variant, asked, capacity_, buffer_, head_, tail_, closed_, prod,
                   recvd, closeEarly, atClose, solo, clears, poolVars, timerVars, cqVars>>

\* Receiver::Recv(): the call begins.
Recv(c) ==
    /\ ConsAt(c, "idle")
    /\ MayCall
    /\ cons' = [cons EXCEPT ![c] = [@ EXCEPT !.pc = "recvChk", !.op = "Recv"]]
    /\ UNCHANGED <<variant, asked, capacity_, buffer_, head_, tail_, closed_, prod,
                   recvd, closeEarly, atClose, solo, clears, poolVars, timerVars, cqVars>>

\* while (!closed_->load(acquire)) { TryPop ... } return queue_->TryPop();
RecvCheckClosed(c) ==
    /\ ConsAt(c, "recvChk")
    /\ cons' = [cons EXCEPT ![c] = [@ EXCEPT !.pc = "loadH",
                   !.op = IF closed_ THEN "RecvLast" ELSE "Recv"]]
    /\ UNCHANGED <<variant, asked, capacity_, buffer_, head_, tail_, closed_, prod,
                   recvd, closeEarly, atClose, solo, clears, poolVars, timerVars, cqVars>>

\* uint64_t h = head_.load(relaxed);
PopLoadHead(c) ==
    /\ ConsAt(c, "loadH")
    /\ cons' = [cons EXCEPT ![c] = [@ EXCEPT !.h = head_, !.pc = "loadT"]]
    /\ UNCHANGED <<variant, asked, capacity_, buffer_, head_, tail_, closed_, prod,
                   recvd, closeEarly, atClose, solo, clears, poolVars, timerVars, cqVars>>

\* uint64_t t = tail_.load(acquire); if (t == h) return std::nullopt;
\* auto &slot = buffer_[h % capacity_];
PopLoadTail(c) ==
    /\ ConsAt(c, "loadT")
    /\ cons' = [cons EXCEPT ![c] =
                   IF tail_ = cons[c].h THEN PopNothing(@)
                   ELSE [@ EXCEPT !.slot = SlotOf(cons[c].h),
                            !.pc = IF variant = "spsc" THEN "move" ELSE "has"]]
    /\ UNCHANGED <<variant, asked, capacity_, buffer_, head_, tail_, closed_, prod,
                   recvd, closeEarly, atClose, solo, clears, poolVars, timerVars, cqVars>>

\* spin_count after the checks of an empty slot that use up the spin
\* budget: with spin_count checks behind it, the loop's check number
\* max_spin_count + 1 - spin_count is the first for which
\* ++spin_count > max_spin_count holds, and it sets spin_count = 0.
SpinOut(spin_count) ==
    LET checks == max_spin_count + 1 - spin_count
    IN  IF spin_count + checks > max_spin_count THEN 0 ELSE spin_count + checks

\* MPSC: while (!slot.has_value()) { if (++spin_count > max_spin_count) {
\* yield; spin_count = 0; reload ... } else yield; }
\* A check that finds the value leaves the loop.  The checks that find the
\* slot empty change nothing but spin_count; the max_spin_count + 1 of
\* them that lead to the reload are taken in one step.
PopSpinSingle(c) ==
    /\ ConsAt(c, "has")
    /\ ~MultiConsumer
    /\ cons' = [cons EXCEPT ![c] =
                   IF buffer_[cons[c].slot].engaged THEN [@ EXCEPT !.pc = "move"]
                   ELSE IF SpinOut(0) = 0 THEN [@ EXCEPT !.pc = "reloadH"] ELSE @]
    /\ UNCHANGED <<variant, asked, capacity_, buffer_, head_, tail_, closed_, prod,
                   recvd, closeEarly, atClose, solo, clears, poolVars, timerVars, cqVars>>

\* SPMC, MPMC: if (!slot.has_value()) { if (++spin_count > max_spin_count)
\* { yield; spin_count = 0; reload ... continue; } yield; continue; }
\* spin_count = 0;
\* As in PopSpinSingle, the rounds of the loop that use up the budget
\* (each loads h and t again and finds the slot empty) are one step.
PopSpinMulti(c) ==
    /\ ConsAt(c, "has")
    /\ MultiConsumer
    /\ cons' = [cons EXCEPT ![c] =
                   IF buffer_[cons[c].slot].engaged THEN [@ EXCEPT !.pc = "cas"]
                   ELSE IF SpinOut(0) = 0 THEN [@ EXCEPT !.pc = "reloadH"] ELSE @]
    /\ UNCHANGED <<variant, asked, capacity_, buffer_, head_, tail_, closed_, prod,
                   recvd, closeEarly, atClose, solo, clears, poolVars, timerVars, cqVars>>

\* The spin budget is used up: h = head_.load(relaxed);
PopReloadHead(c) ==
    /\ ConsAt(c, "reloadH")
    /\ cons' = [cons EXCEPT ![c] = [@ EXCEPT !.h = head_, !.pc = "reloadT"]]
    /\ UNCHANGED <<variant, asked, capacity_, buffer_, head_, tail_, closed_, prod,
                   recvd, closeEarly, atClose, solo, clears, poolVars, timerVars, cqVars>>

\* t = tail_.load(acquire); if (t == h) return std::nullopt;  then MPSC
\* assigns to slot, and SPMC/MPMC continue their loop.
PopReloadTail(c) ==
    /\ ConsAt(c, "reloadT")
    /\ cons' = [cons EXCEPT ![c] =
                   IF tail_ = cons[c].h THEN PopNothing(@)
                   ELSE [@ EXCEPT !.pc = IF MultiConsumer THEN "loadH" ELSE "copyR"]]
    /\ UNCHANGED <<variant, asked, capacity_, buffer_, head_, tail_, closed_, prod,
                   recvd, closeEarly, atClose, solo, clears, poolVars, timerVars, cqVars>>

\* MPSC: slot = buffer_[h % capacity_];  slot is a reference, so this is a
\* copy assignment of one optional to another: here the source is read.
PopCopyRead(c) ==
    /\ ConsAt(c, "copyR")
    /\ cons' = [cons EXCEPT ![c] = [@ EXCEPT !.tmp = buffer_[SlotOf(cons[c].h)],
                   !.pc = "copyW"]]
    /\ UNCHANGED <<variant, asked, capacity_, buffer_, head_, tail_, closed_, prod,
                   recvd, closeEarly, atClose, solo, clears, poolVars, timerVars, cqVars>>

\* ... and here the slot that the reference names is overwritten with it.
PopCopyWrite(c) ==
    /\ ConsAt(c, "copyW")
    /\ buffer_' = [buffer_ EXCEPT ![cons[c].slot] = cons[c].tmp]
    /\ cons' = [cons EXCEPT ![c] = [@ EXCEPT !.tmp = EmptySlot, !.pc = "has"]]
    /\ UNCHANGED <<variant, asked, capacity_, head_, tail_, closed_, prod,
                   recvd, closeEarly, atClose, solo, clears, poolVars, timerVars, cqVars>>

\* SPMC, MPMC: if (head_.compare_exchange_weak(h, h + 1, acq_rel, relaxed)):
\* it succeeds.
PopCas(c) ==
    /\ ConsAt(c, "cas")
    /\ head_ = cons[c].h
    /\ head_' = head_ + 1
    /\ cons' = [cons EXCEPT ![c] = [@ EXCEPT !.pc = "move"]]
    /\ UNCHANGED <<variant, asked, capacity_, buffer_, tail_, closed_, prod,
                   recvd, closeEarly, atClose, solo, clears, poolVars, timerVars, cqVars>>

\* The compare-exchange fails: spin_count = 0; round the while (true) loop.
PopCasFail(c) ==
    /\ ConsAt(c, "cas")
    /\ cons' = [cons EXCEPT ![c] = [@ EXCEPT !.pc = "loadH", !.h = 0, !.slot = 0]]
    /\ UNCHANGED <<variant, asked, capacity_, buffer_, head_, tail_, closed_, prod,
                   recvd, closeEarly, atClose, solo, clears, poolVars, timerVars, cqVars>>

\* std::optional<T> result(std::move(slot.value()));  value() throws
\* std::bad_optional_access on a disengaged optional.
PopMove(c) ==
    /\ ConsAt(c, "move")
    /\ cons' = [cons EXCEPT ![c] =
                   IF buffer_[cons[c].slot].engaged
                   THEN [@ EXCEPT !.res = buffer_[cons[c].slot].val, !.pc = "reset"]
                   ELSE [@ EXCEPT !.pc = "threw"]]
    /\ UNCHANGED <<variant, asked, capacity_, buffer_, head_, tail_, closed_, prod,
                   recvd, closeEarly, atClose, solo, clears, poolVars, timerVars, cqVars>>

\* slot.reset();  SPMC and MPMC return result here.
PopReset(c) ==
    /\ ConsAt(c, "reset")
    /\ buffer_' = [buffer_ EXCEPT ![cons[c].slot] = [@ EXCEPT !.engaged = FALSE]]
    /\ IF MultiConsumer
       THEN /\ recvd' = InIndexOrder(recvd, [idx |-> cons[c].h, val |-> cons[c].res])
            /\ cons' = [cons EXCEPT ![c] = [@ EXCEPT !.pc = "retValue"]]
       ELSE /\ recvd' = recvd
            /\ cons' = [cons EXCEPT ![c] = [@ EXCEPT !.pc = "storeH"]]
    /\ UNCHANGED <<variant, asked, capacity_, head_, tail_, closed_, prod,
                   closeEarly, atClose, solo, clears, poolVars, timerVars, cqVars>>

\* SPSC, MPSC: head_.store(h + 1, release); return result;
PopStoreHead(c) ==
    /\ ConsAt(c, "storeH")
    /\ head_' = cons[c].h + 1
    /\ recvd' = Append(recvd, [idx |-> cons[c].h, val |-> cons[c].res])
    /\ cons' = [cons EXCEPT ![c] = [@ EXCEPT !.pc = "retValue"]]
    /\ UNCHANGED <<variant, asked, capacity_, buffer_, tail_, closed_, prod,
                   closeEarly, atClose, solo, clears, poolVars, timerVars, cqVars>>

\* size_t Size() const: const uint64_t h = head_.load(relaxed);
Size(c) ==
    /\ ConsAt(c, "idle")
    /\ MayCall
    /\ cons' = [cons EXCEPT ![c] = [@ EXCEPT !.pc = "sizeT", !.op = "Size", !.h = head_]]
    /\ UNCHANGED <<variant, asked, capacity_, buffer_, head_, tail_, closed_, prod,
                   recvd, closeEarly, atClose, solo, clears, poolVars, timerVars, cqVars>>

\* Size() without the cut at capacity_.
SizeOf_NoClamp(t, h) == IF t >= h THEN t - h ELSE 0

\* uint64_t diff = (t >= h) ? (t - h) : 0;
\* if (diff > capacity_u64) { diff = capacity_u64; }
SizeOf(t, h) ==
    IF t >= h THEN (IF t - h > capacity_ THEN capacity_ ELSE t - h) ELSE 0

\* const uint64_t t = tail_.load(acquire); ... return static_cast<size_t>(diff);
SizeLoadTail(c) ==
    /\ ConsAt(c, "sizeT")
    /\ cons' = [cons EXCEPT ![c] = [@ EXCEPT !.pc = "retSize",
                   !.res = SizeOf(tail_, cons[c].h)]]
    /\ UNCHANGED <<variant, asked, capacity_, buffer_, head_, tail_, closed_, prod,
                   recvd, closeEarly, atClose, solo, clears, poolVars, timerVars, cqVars>>

\* The call has returned (a value, std::nullopt, a size) or has thrown: the
\* receiver is free for its next call.
RecvReturn(c) ==
    /\ cons[c].pc \in ConsDone
    /\ cons' = [cons EXCEPT ![c] = IdleCons]
    /\ UNCHANGED <<variant, asked, capacity_, buffer_, head_, tail_, closed_, prod,
                   recvd, closeEarly, atClose, solo, clears, poolVars, timerVars, cqVars>>

\* ------------------------------------------------------------------ thread pool
\* Task items queued in one run.
MaxTasks == 4

\* Shutdown() calls made in one run.
MaxShutdowns == 2

\* constexpr int THREAD_NUM_MAX = 2;
THREAD_NUM_MAX == 2

\* constexpr int THREAD_NUM_PRE_ALLOC = 1;
THREAD_NUM_PRE_ALLOC == 1

\* The serial tags in use; "" is the tag of a task any worker may run.
SerialTags == {"a", "b"}

NoItem == [id |-> 0, tag |-> ""]

Workers == 1..THREAD_NUM_MAX

\* idle_: the workers waiting for work.
IdleWorkers == {w \in Workers : threads_[w].st = "wait"}

\* threads_.size(): the workers created so far.
Created == {w \in Workers : threads_[w].st # "none"}

InQueue(q, x) == \E i \in 1..Len(q) : q[i] = x

\* A task item that jumps its queue.
Enqueue_AtFront(q, item) == <<item>> \o q

\* A task item joins the back of its queue.
Enqueue(q, item) == Append(q, item)

\* The queue of a tag in serialTasks_; a tag without an entry has none.
QueueOf(tag) == IF tag \in DOMAIN serialTasks_ THEN serialTasks_[tag] ELSE <<>>

\* serialTasks_[tag].push(item): operator[] makes the entry if there is none.
WithItem(tag, item) ==
    [t \in DOMAIN serialTasks_ \cup {tag} |->
        IF t = tag THEN Enqueue(QueueOf(tag), item) ELSE serialTasks_[t]]

\* A worker that would leave the empty queue of its tag in the map.
AfterRun_Keep(tag) == serialTasks_

\* After a tagged item has run: an empty queue is erased from the map.
AfterRun(tag) ==
    IF QueueOf(tag) = <<>>
    THEN [t \in DOMAIN serialTasks_ \ {tag} |-> serialTasks_[t]]
    ELSE serialTasks_

\* A worker that would not give the tag back to the other workers.
BackToAvailable_Never(q, tag) == q

\* After a tagged item has run: a tag whose queue is not empty goes back
\* into availableSerialTags_.
BackToAvailable(q, tag) == IF QueueOf(tag) # <<>> THEN Append(q, tag) ELSE q

\* A worker that would look at the serial tags first.
PreferGeneral_SerialFirst == availableSerialTags_ = <<>>

\* The worker prefers tasks_: it looks at the serial tags only if tasks_ is
\* empty.
PreferGeneral == tasks_ # <<>>

\* ThreadPool(preAlloc, threadsMax, name): preAlloc workers wait for work.
NewThreadPool ==
    /\ tasks_ = <<>>
    /\ serialTasks_ = <<>>
    /\ runningSerialTags_ = {}
    /\ availableSerialTags_ = <<>>
    /\ threads_ = [w \in Workers |->
                      [st |-> IF w <= THREAD_NUM_PRE_ALLOC THEN "wait" ELSE "none",
                       item |-> NoItem]]
    /\ shutdown_ = FALSE
    /\ shutPc = "idle"
    /\ nextTask = 1
    /\ started = <<>>
    /\ shutReturned = 0

\* A tag is offered to the workers whether or not it has a runner.
OfferTag_Always(q, tag) == Append(q, tag)

\* A tag with queued work joins availableSerialTags_ unless it has a runner
\* or waits there already.
OfferTag(q, tag) ==
    IF tag \in runningSerialTags_ \/ InQueue(q, tag) THEN q ELSE Append(q, tag)

\* A worker is created while fewer than threadsMax exist, idle workers or
\* not.
WithNewWorker_Eager(ts) ==
    IF Created # Workers
    THEN LET w == CHOOSE v \in Workers \ Created : \A u \in Workers \ Created : v <= u
         IN  [ts EXCEPT ![w] = [st |-> "wait", item |-> NoItem]]
    ELSE ts

\* AddTask creates a worker if no worker is idle and fewer than
\* threadsMax exist.
WithNewWorker(ts) ==
    IF IdleWorkers = {} /\ Created # Workers
    THEN LET w == CHOOSE v \in Workers \ Created : \A u \in Workers \ Created : v <= u
         IN  [ts EXCEPT ![w] = [st |-> "wait", item |-> NoItem]]
    ELSE ts

\* AddTask(task, serialTag): an untagged item joins tasks_; a tagged item
\* joins its tag's queue, and the tag joins availableSerialTags_ unless it
\* has a runner or is waiting there already.
AddTask(tag) ==
    /\ ~shutdown_
    /\ nextTask <= MaxTasks
    /\ LET item == [id |-> nextTask, tag |-> tag]
       IN  IF tag = ""
           THEN /\ tasks_' = Enqueue(tasks_, item)
                /\ UNCHANGED <<serialTasks_, availableSerialTags_>>
           ELSE /\ serialTasks_' = WithItem(tag, item)
                /\ availableSerialTags_' = OfferTag(availableSerialTags_, tag)
                /\ UNCHANGED tasks_
    /\ threads_' = WithNewWorker(threads_)
    /\ nextTask' = nextTask + 1
    /\ UNCHANGED <<runningSerialTags_, shutdown_, shutPc, started, shutReturned,
                   chanVars, timerVars, cqVars>>

\* The worker loop wakes with work to do: it prefers tasks_; else it pops
\* the front of availableSerialTags_, pops the front item of that tag's
\* queue and inserts the tag into runningSerialTags_.  It then runs the item.
WorkerTake(w) ==
    /\ threads_[w].st = "wait"
    /\ tasks_ # <<>> \/ availableSerialTags_ # <<>>
    /\ IF PreferGeneral
       THEN /\ threads_' = [threads_ EXCEPT ![w] = [st |-> "run", item |-> Head(tasks_)]]
            /\ started' = Append(started, Head(tasks_))
            /\ tasks_' = Tail(tasks_)
            /\ UNCHANGED <<serialTasks_, runningSerialTags_, availableSerialTags_>>
       ELSE LET tag == Head(availableSerialTags_)
            IN  /\ threads_' = [threads_ EXCEPT ![w] =
                                   [st |-> "run", item |-> Head(serialTasks_[tag])]]
                /\ started' = Append(started, Head(serialTasks_[tag]))
                /\ serialTasks_' = [serialTasks_ EXCEPT ![tag] = Tail(@)]
                /\ availableSerialTags_' = Tail(availableSerialTags_)
                /\ runningSerialTags_' = runningSerialTags_ \cup {tag}
                /\ UNCHANGED tasks_
    /\ UNCHANGED <<shutdown_, shutPc, nextTask, shutReturned, chanVars, timerVars, cqVars>>

\* The item has run.  After a tagged item the worker removes the tag from
\* runningSerialTags_ and, if the tag's queue is not empty, pushes the tag
\* back into availableSerialTags_ (an empty queue is erased from the map).
WorkerFinish(w) ==
    /\ threads_[w].st = "run"
    /\ LET tag == threads_[w].item.tag
       IN  IF tag = ""
           THEN UNCHANGED <<serialTasks_, runningSerialTags_, availableSerialTags_>>
           ELSE /\ runningSerialTags_' = runningSerialTags_ \ {tag}
                /\ availableSerialTags_' = BackToAvailable(availableSerialTags_, tag)
                /\ serialTasks_' = AfterRun(tag)
    /\ threads_' = [threads_ EXCEPT ![w] = [st |-> "wait", item |-> NoItem]]
    /\ UNCHANGED <<tasks_, shutdown_, shutPc, nextTask, started,
                   shutReturned, chanVars, timerVars, cqVars>>

\* Shutdown(): the pool goes to draining and signals the workers.  On a
\* pool that was shut down already the flag is set as it was.
Shutdown ==
    /\ shutPc = "idle"
    /\ shutReturned < MaxShutdowns
    /\ shutdown_' = TRUE
    /\ shutPc' = "join"
    /\ UNCHANGED <<tasks_, serialTasks_, runningSerialTags_, availableSerialTags_,
                   threads_, nextTask, started, shutReturned, chanVars, timerVars, cqVars>>

\* A Shutdown() that would not wait for its workers.
ShutdownJoin_NoWait ==
    /\ shutPc = "join"
    /\ shutPc' = "idle"
    /\ shutReturned' = shutReturned + 1
    /\ UNCHANGED <<tasks_, serialTasks_, runningSerialTags_, availableSerialTags_,
                   threads_, shutdown_, nextTask, started, chanVars, timerVars, cqVars>>

\* Shutdown() joins the workers: it returns when each of them has exited.
ShutdownJoin ==
    /\ shutPc = "join"
    /\ \A w \in Created : threads_[w].st = "exited"
    /\ shutPc' = "idle"
    /\ shutReturned' = shutReturned + 1
    /\ UNCHANGED <<tasks_, serialTasks_, runningSerialTags_, availableSerialTags_,
                   threads_, shutdown_, nextTask, started, chanVars, timerVars, cqVars>>

\* A woken worker exits if the pool shuts down and nothing is runnable.
WorkerExit(w) ==
    /\ shutdown_
    /\ threads_[w].st = "wait"
    /\ tasks_ = <<>> /\ availableSerialTags_ = <<>>
    /\ threads_' = [threads_ EXCEPT ![w] = [st |-> "exited", item |-> NoItem]]
    /\ UNCHANGED <<tasks_, serialTasks_, runningSerialTags_, availableSerialTags_,
                   shutdown_, shutPc, nextTask, started, shutReturned,
                   chanVars, timerVars, cqVars>>

NextPool ==
    \/ \E tag \in SerialTags \cup {""} : AddTask(tag)
    \/ \E w \in Workers : WorkerTake(w) \/ WorkerFinish(w) \/ WorkerExit(w)
    \/ Shutdown
    \/ ShutdownJoin

\* ------------------------------------------------------------------ async timer
\* Timers scheduled in one run.
MaxTimers == 2

\* The clock runs from 0 to MaxTime.
MaxTime == 2

\* Delays and intervals asked for are 0..MaxDelay.
MaxDelay == 1

\* Workers of the timer's pool that run wrappers at the same time.
TimerPoolSize == 1

\* Start() calls that create a worker thread in one run.
MaxStarts == 2

\* Threads that call ScheduleOnce and ScheduleRepeating.
NumSchedulers == 2

TimerWorkers == 1..TimerPoolSize

IdleExec == [pc |-> "idle", id |-> 0]

\* A std::thread that was not created yet, and the frame of a thread that
\* is not inside ScheduleOnce or ScheduleRepeating.
NoThread == [pc |-> "none", until |-> 0, ntf |-> FALSE]

IdleSched == [pc |-> "idle", id |-> 0, ret |-> 0, seen |-> 0]

\* No Cancel call has returned.
NoCancel == [id |-> 0, ret |-> FALSE]

\* AsyncTimer(threadPoolSize); running_{false}, shouldStop_{false},
\* nextTimerId_{1}, no worker thread.
NewAsyncTimer ==
    /\ running_ = FALSE
    /\ shouldStop_ = FALSE
    /\ timerTasks_ = <<>>
    /\ timerMap_ = {}
    /\ timers = <<>>
    /\ nextTimerId_ = 1
    /\ now = 0
    /\ twork = [t \in 1..MaxStarts |-> NoThread]
    /\ workerThread_ = 0
    /\ stopPc = "idle"
    /\ aborted = FALSE
    /\ poolDown = FALSE
    /\ sched = [s \in 1..NumSchedulers |-> IdleSched]
    /\ wrapQueue = <<>>
    /\ wrapExec = [w \in TimerWorkers |-> IdleExec]
    /\ dispatched = <<>>
    /\ cancelled = {}
    /\ lateFired = {}
    /\ returnedIds = <<>>
    /\ cancelRet = NoCancel
    /\ cancelledAll = {}

\* An emplace that would put the new element first, whatever its key.
Emplace_AtFront(q, e) == <<e>> \o q

\* timerTasks_.emplace(at, task): a multimap puts an element after the
\* elements whose keys are not greater.
RECURSIVE Emplace(_, _)
Emplace(q, e) ==
    IF q = <<>> THEN <<e>>
    ELSE IF e.at < Head(q).at THEN <<e>> \o q
         ELSE <<Head(q)>> \o Emplace(Tail(q), e)

\* std::thread::joinable() of thread object t.
Joinable(t) == twork[t].pc \notin {"none", "joined"}

\* The threads that run TimerWorker().
LiveWorkers == {t \in 1..MaxStarts : twork[t].pc \notin {"none", "exited", "joined"}}

\* GetActiveTimerCount(): timerMap_.size() under mutex_.
GetActiveTimerCount == Cardinality(timerMap_)

\* The task with this id has an element in timerTasks_.
InTimerTasks(id) == \E i \in 1..Len(timerTasks_) : timerTasks_[i].id = id

\* Start(), under mutex_: nothing if running_; else shouldStop_ = false,
\* running_ = true and workerThread_ = make_unique<std::thread>(...).  The
\* new thread runs before the assignment destroys the std::thread that
\* workerThread_ held; ~thread() of a joinable thread is std::terminate().
Start ==
    /\ ~aborted
    /\ IF running_
       THEN UNCHANGED <<running_, shouldStop_, twork, workerThread_, aborted>>
       ELSE /\ \E t \in 1..MaxStarts :
                  /\ twork[t].pc = "none"
                  /\ \A u \in 1..(t - 1) : twork[u].pc # "none"
                  /\ twork' = [twork EXCEPT ![t] = [pc |-> "top", until |-> 0, ntf |-> FALSE]]
                  /\ workerThread_' = t
            /\ shouldStop_' = FALSE
            /\ running_' = TRUE
            /\ aborted' = (workerThread_ # 0 /\ Joinable(workerThread_))
    /\ UNCHANGED <<timerTasks_, timerMap_, timers, nextTimerId_, now, stopPc,
                   poolDown, sched, wrapQueue, wrapExec, dispatched, cancelled,
                   lateFired, returnedIds, cancelRet, cancelledAll, chanVars,
                   poolVars, cqVars>>

\* Stop(), its block under mutex_: nothing (return 0) if not running_;
\* else shouldStop_ = true; running_ = false.
StopFlags ==
    /\ ~aborted
    /\ stopPc = "idle"
    /\ IF running_
       THEN /\ shouldStop_' = TRUE
            /\ running_' = FALSE
            /\ stopPc' = "notify"
       ELSE UNCHANGED <<shouldStop_, running_, stopPc>>
    /\ UNCHANGED <<timerTasks_, timerMap_, timers, nextTimerId_, now, twork,
                   workerThread_, aborted, poolDown, sched, wrapQueue, wrapExec,
                   dispatched, cancelled, lateFired, returnedIds, cancelRet,
                   cancelledAll, chanVars, poolVars, cqVars>>

\* The threads blocked in condition_.wait or condition_.wait_until.
Waiting(tw) == {t \in DOMAIN tw : tw[t].pc \in {"waitEmpty", "waitUntil"}}

\* condition_.notify_all(): every waiting thread is woken.
NotifyAll(tw) ==
    [t \in DOMAIN tw |-> IF t \in Waiting(tw) THEN [tw[t] EXCEPT !.ntf = TRUE] ELSE tw[t]]

\* condition_.notify_one(): one of the waiting threads is woken, if any.
NotifyOne(tw) ==
    IF Waiting(tw) = {} THEN {tw}
    ELSE {[tw EXCEPT ![t] = [@ EXCEPT !.ntf = TRUE]] : t \in Waiting(tw)}

\* Stop(), after its block: condition_.notify_all();
StopNotify ==
    /\ ~aborted
    /\ stopPc = "notify"
    /\ twork' = NotifyAll(twork)
    /\ stopPc' = "join"
    /\ UNCHANGED <<running_, shouldStop_, timerTasks_, timerMap_, timers,
                   nextTimerId_, now, workerThread_, aborted, poolDown, sched,
                   wrapQueue, wrapExec, dispatched, cancelled, lateFired,
                   returnedIds, cancelRet, cancelledAll, chanVars, poolVars, cqVars>>

\* if (workerThread_ && workerThread_->joinable()) workerThread_->join();
\* join() returns when the thread has left TimerWorker().
StopJoin ==
    /\ ~aborted
    /\ stopPc = "join"
    /\ IF workerThread_ # 0 /\ Joinable(workerThread_)
       THEN /\ twork[workerThread_].pc = "exited"
            /\ twork' = [twork EXCEPT ![workerThread_] = [@ EXCEPT !.pc = "joined"]]
            /\ stopPc' = "reset"
       ELSE /\ twork' = twork
            /\ stopPc' = "shutdown"
    /\ UNCHANGED <<running_, shouldStop_, timerTasks_, timerMap_, timers,
                   nextTimerId_, now, workerThread_, aborted, poolDown, sched,
                   wrapQueue, wrapExec, dispatched, cancelled, lateFired,
                   returnedIds, cancelRet, cancelledAll, chanVars, poolVars, cqVars>>

\* workerThread_.reset(), outside mutex_: it destroys the std::thread that
\* workerThread_ holds now.
StopReset ==
    /\ ~aborted
    /\ stopPc = "reset"
    /\ aborted' = (workerThread_ # 0 /\ Joinable(workerThread_))
    /\ workerThread_' = 0
    /\ stopPc' = "shutdown"
    /\ UNCHANGED <<running_, shouldStop_, timerTasks_, timerMap_, timers,
                   nextTimerId_, now, twork, poolDown, sched, wrapQueue, wrapExec,
                   dispatched, cancelled, lateFired, returnedIds, cancelRet,
                   cancelledAll, chanVars, poolVars, cqVars>>

\* threadPool_->Shutdown(); return 0;
StopShutdown ==
    /\ ~aborted
    /\ stopPc = "shutdown"
    /\ poolDown' = TRUE
    /\ stopPc' = "idle"
    /\ UNCHANGED <<running_, shouldStop_, timerTasks_, timerMap_, timers,
                   nextTimerId_, now, twork, workerThread_, aborted, sched,
                   wrapQueue, wrapExec, dispatched, cancelled, lateFired,
                   returnedIds, cancelRet, cancelledAll, chanVars, poolVars, cqVars>>

\* A Schedule call that fails one of its checks would also take an id.
ScheduleRefused_TakesId(s) ==
    /\ sched' = [sched EXCEPT ![s] = [pc |-> "returned", id |-> 0, ret |-> 0, seen |-> 0]]
    /\ nextTimerId_' = nextTimerId_ + 1
    /\ UNCHANGED <<running_, shouldStop_, timerTasks_, timerMap_, timers, now,
                   twork, workerThread_, stopPc, aborted, poolDown, wrapQueue,
                   wrapExec, dispatched, cancelled, lateFired, returnedIds,
                   cancelRet, cancelledAll, chanVars, poolVars, cqVars>>

\* A Schedule call fails one of its checks: return 0;
ScheduleRefused(s) ==
    /\ sched' = [sched EXCEPT ![s] = [pc |-> "returned", id |-> 0, ret |-> 0, seen |-> 0]]
    /\ UNCHANGED <<running_, shouldStop_, timerTasks_, timerMap_, timers,
                   nextTimerId_, now, twork, workerThread_, stopPc, aborted,
                   poolDown, wrapQueue, wrapExec, dispatched, cancelled, lateFired,
                   returnedIds, cancelRet, cancelledAll, chanVars, poolVars, cqVars>>

\* A counter that is read and not advanced.
GenerateTimerId_Stuck == nextTimerId_

\* GenerateTimerId(): nextTimerId_.fetch_add(1) returns the old value of
\* the counter; this is the new one.
GenerateTimerId == nextTimerId_ + 1

\* Both Schedule functions, past their checks: timerId = GenerateTimerId()
\* and task = make_shared<TimerTask>(timerId, callback, execTime, ...).
Schedule(s, execTime, interval, repeating) ==
    /\ nextTimerId_ <= MaxTimers
    /\ timers' = Append(timers, [isCancelled |-> FALSE, isRepeating |-> repeating,
                                 interval |-> interval, nextExecutionTime |-> execTime])
    /\ nextTimerId_' = GenerateTimerId
    /\ sched' = [sched EXCEPT ![s] = [pc |-> "insert", id |-> nextTimerId_, ret |-> 0,
                                    seen |-> Len(returnedIds)]]
    /\ UNCHANGED <<running_, shouldStop_, timerTasks_, timerMap_, now, twork,
                   workerThread_, stopPc, aborted, poolDown, wrapQueue, wrapExec,
                   dispatched, cancelled, lateFired, returnedIds, cancelRet,
                   cancelledAll, chanVars, poolVars, cqVars>>

\* ScheduleOnce(callback, delayMs): a null callback and a timer that is
\* not running are refused; running_ is read without mutex_.  The frame
\* notes how many Schedule calls had returned an id when this one began.
ScheduleOnce(s, callback, delayMs) ==
    /\ ~aborted
    /\ sched[s].pc = "idle"
    /\ IF ~callback \/ ~running_
       THEN ScheduleRefused(s)
       ELSE Schedule(s, now + delayMs, 0, FALSE)

\* The first deadline would be now + initialDelayMs also for a delay of 0.
FirstExecution_NoDefault(intervalMs, initialDelayMs) == now + initialDelayMs

\* execTime = now + milliseconds(initialDelayMs > 0 ? initialDelayMs :
\* intervalMs)
FirstExecution(intervalMs, initialDelayMs) ==
    now + (IF initialDelayMs > 0 THEN initialDelayMs ELSE intervalMs)

\* ScheduleRepeating(callback, intervalMs, initialDelayMs): an interval of
\* 0 is refused as well.
ScheduleRepeating(s, callback, intervalMs, initialDelayMs) ==
    /\ ~aborted
    /\ sched[s].pc = "idle"
    /\ IF ~callback \/ intervalMs = 0 \/ ~running_
       THEN ScheduleRefused(s)
       ELSE Schedule(s, FirstExecution(intervalMs, initialDelayMs), intervalMs, TRUE)

\* { lock_guard; timerTasks_.emplace(execTime, task); timerMap_[timerId] =
\* task; }
ScheduleInsert(s) ==
    /\ ~aborted
    /\ sched[s].pc = "insert"
    /\ timerTasks_' = Emplace(timerTasks_, [at |-> timers[sched[s].id].nextExecutionTime,
                                            id |-> sched[s].id])
    /\ timerMap_' = timerMap_ \cup {sched[s].id}
    /\ sched' = [sched EXCEPT ![s] = [@ EXCEPT !.pc = "notify"]]
    /\ UNCHANGED <<running_, shouldStop_, timers, nextTimerId_, now, twork,
                   workerThread_, stopPc, aborted, poolDown, wrapQueue, wrapExec,
                   dispatched, cancelled, lateFired, returnedIds, cancelRet,
                   cancelledAll, chanVars, poolVars, cqVars>>

\* condition_.notify_one(); return timerId;
ScheduleNotify(s) ==
    /\ ~aborted
    /\ sched[s].pc = "notify"
    /\ twork' \in NotifyOne(twork)
    /\ sched' = [sched EXCEPT ![s] = [@ EXCEPT !.pc = "returned", !.ret = sched[s].id]]
    /\ returnedIds' = Append(returnedIds, sched[s].id)
    /\ UNCHANGED <<running_, shouldStop_, timerTasks_, timerMap_, timers,
                   nextTimerId_, now, workerThread_, stopPc, aborted, poolDown,
                   wrapQueue, wrapExec, dispatched, cancelled, lateFired, cancelRet,
                   cancelledAll, chanVars, poolVars, cqVars>>

\* The caller has its result.
ScheduleReturn(s) ==
    /\ ~aborted
    /\ sched[s].pc = "returned"
    /\ sched' = [sched EXCEPT ![s] = IdleSched]
    /\ UNCHANGED <<running_, shouldStop_, timerTasks_, timerMap_, timers,
                   nextTimerId_, now, twork, workerThread_, stopPc, aborted,
                   poolDown, wrapQueue, wrapExec, dispatched, cancelled, lateFired,
                   returnedIds, cancelRet, cancelledAll, chanVars, poolVars, cqVars>>

\* A task that was ever created would count as found.
Found_Known(timerId) == timerId \in DOMAIN timers

\* auto it = timerMap_.find(timerId); it != timerMap_.end()
Found(timerId) == timerId \in timerMap_

\* Cancel(timerId), under mutex_: if timerMap_ has the id, isCancelled =
\* true and return true; else return false.
Cancel(timerId) ==
    /\ ~aborted
    /\ IF Found(timerId)
       THEN /\ timers' = [timers EXCEPT ![timerId] = [@ EXCEPT !.isCancelled = TRUE]]
            /\ cancelled' = cancelled \cup {timerId}
            /\ cancelRet' = [id |-> timerId, ret |-> TRUE]
       ELSE /\ cancelRet' = [id |-> timerId, ret |-> FALSE]
            /\ UNCHANGED <<timers, cancelled>>
    /\ UNCHANGED <<running_, shouldStop_, timerTasks_, timerMap_, nextTimerId_, now,
                   twork, workerThread_, stopPc, aborted, poolDown, sched,
                   wrapQueue, wrapExec, dispatched, lateFired, returnedIds,
                   cancelledAll, chanVars, poolVars, cqVars>>

\* CancelAll(), under mutex_: isCancelled = true for every task of timerMap_.
CancelAll ==
    /\ ~aborted
    /\ timers' = [i \in DOMAIN timers |->
                     IF i \in timerMap_ THEN [timers[i] EXCEPT !.isCancelled = TRUE]
                     ELSE timers[i]]
    /\ cancelledAll' = cancelledAll \cup timerMap_
    /\ UNCHANGED <<running_, shouldStop_, timerTasks_, timerMap_, nextTimerId_, now,
                   twork, workerThread_, stopPc, aborted, poolDown, sched,
                   wrapQueue, wrapExec, dispatched, cancelled, lateFired,
                   returnedIds, cancelRet, chanVars, poolVars, cqVars>>

\* Time passes.
Tick ==
    /\ ~aborted
    /\ now < MaxTime
    /\ now' = now + 1
    /\ UNCHANGED <<running_, shouldStop_, timerTasks_, timerMap_, timers,
                   nextTimerId_, twork, workerThread_, stopPc, aborted, poolDown,
                   sched, wrapQueue, wrapExec, dispatched, cancelled, lateFired,
                   returnedIds, cancelRet, cancelledAll, chanVars, poolVars, cqVars>>

\* The erase loop would not test it->first <= now.
Expired_All(q) == q

\* The elements of timerTasks_ with it->first <= now, and the rest.
RECURSIVE Expired(_)
Expired(q) ==
    IF q = <<>> \/ Head(q).at > now THEN <<>> ELSE <<Head(q)>> \o Expired(Tail(q))

\* The erase loop would leave the expired elements where they are.
NotExpired_KeepAll(q) == q

RECURSIVE NotExpired(_)
NotExpired(q) ==
    IF q = <<>> \/ Head(q).at > now THEN q ELSE NotExpired(Tail(q))

\* expiredTasks would hold the cancelled tasks too.
ExpiredTasks_WithCancelled(q) == [i \in 1..Len(q) |-> q[i].id]

\* expiredTasks: the expired tasks that are not cancelled.
RECURSIVE ExpiredTasks(_)
ExpiredTasks(q) ==
    IF q = <<>> THEN <<>>
    ELSE IF timers[Head(q).id].isCancelled THEN ExpiredTasks(Tail(q))
         ELSE <<Head(q).id>> \o ExpiredTasks(Tail(q))

\* A fixed-rate timer: the next deadline counted from the last one.
NextExecution_FixedRate(id) == timers[id].nextExecutionTime + timers[id].interval

\* task->nextExecutionTime = now + task->interval;
NextExecution(id) == now + timers[id].interval

\* The third loop over expiredTasks: a repeating task is entered again
\* at its new nextExecutionTime.
RECURSIVE Rescheduled(_, _)
Rescheduled(q, ids) ==
    IF ids = <<>> THEN q
    ELSE Rescheduled(IF timers[Head(ids)].isRepeating
                     THEN Emplace(q, [at |-> NextExecution(Head(ids)),
                                      id |-> Head(ids)])
                     ELSE q,
                     Tail(ids))

\* TimerWorker: while (!shouldStop_.load()) { unique_lock lock(mutex_); ...
WorkerTest(t) ==
    /\ ~aborted
    /\ twork[t].pc = "top"
    /\ twork' = [twork EXCEPT ![t] =
                    [@ EXCEPT !.pc = IF shouldStop_ THEN "exited" ELSE "lock"]]
    /\ UNCHANGED <<running_, shouldStop_, timerTasks_, timerMap_, timers,
                   nextTimerId_, now, workerThread_, stopPc, aborted, poolDown,
                   sched, wrapQueue, wrapExec, dispatched, cancelled, lateFired,
                   returnedIds, cancelRet, cancelledAll, chanVars, poolVars, cqVars>>

\* if (timerTasks_.empty()) { condition_.wait(lock, [] { return
\* !timerTasks_.empty() || shouldStop_; }); continue; }
WorkerWaitEmpty(t) ==
    /\ ~aborted
    /\ twork[t].pc = "lock"
    /\ timerTasks_ = <<>>
    /\ twork' = [twork EXCEPT ![t] =
                    [@ EXCEPT !.pc = IF shouldStop_ THEN "top" ELSE "waitEmpty"]]
    /\ UNCHANGED <<running_, shouldStop_, timerTasks_, timerMap_, timers,
                   nextTimerId_, now, workerThread_, stopPc, aborted, poolDown,
                   sched, wrapQueue, wrapExec, dispatched, cancelled, lateFired,
                   returnedIds, cancelRet, cancelledAll, chanVars, poolVars, cqVars>>

\* The wait ends: the thread was woken, by a notify or spuriously, and
\* its predicate holds.
WorkerWakeEmpty(t) ==
    /\ ~aborted
    /\ twork[t].pc = "waitEmpty"
    /\ timerTasks_ # <<>> \/ shouldStop_
    /\ twork' = [twork EXCEPT ![t] = [@ EXCEPT !.pc = "top", !.ntf = FALSE]]
    /\ UNCHANGED <<running_, shouldStop_, timerTasks_, timerMap_, timers,
                   nextTimerId_, now, workerThread_, stopPc, aborted, poolDown,
                   sched, wrapQueue, wrapExec, dispatched, cancelled, lateFired,
                   returnedIds, cancelRet, cancelledAll, chanVars, poolVars, cqVars>>

\* TimerWorker finds nextTime <= now and calls ExecuteExpiredTimers(),
\* all under mutex_: the expired elements are erased, a wrapper of every
\* expired task that is not cancelled goes to the thread pool, repeating
\* tasks are entered again and one-shot tasks leave timerMap_.  A pool
\* that was shut down may or may not take the wrapper.
ExecuteExpiredTimers(t) ==
    /\ ~aborted
    /\ twork[t].pc = "lock"
    /\ timerTasks_ # <<>>
    /\ Head(timerTasks_).at <= now
    /\ LET ids == ExpiredTasks(Expired(timerTasks_))
           fired == {ids[i] : i \in 1..Len(ids)}
       IN  /\ wrapQueue' \in (IF poolDown THEN {wrapQueue} ELSE {}) \cup {wrapQueue \o ids}
           /\ dispatched' = dispatched \o ids
           /\ timerTasks_' = Rescheduled(NotExpired(timerTasks_), ids)
           /\ timers' = [i \in DOMAIN timers |->
                            IF i \in fired /\ timers[i].isRepeating
                            THEN [timers[i] EXCEPT !.nextExecutionTime = NextExecution(i)]
                            ELSE timers[i]]
           /\ timerMap_' = timerMap_ \ {i \in fired : ~timers[i].isRepeating}
    /\ twork' = [twork EXCEPT ![t] = [@ EXCEPT !.pc = "top"]]
    /\ UNCHANGED <<running_, shouldStop_, nextTimerId_, now, workerThread_, stopPc,
                   aborted, poolDown, sched, wrapExec, cancelled, lateFired,
                   returnedIds, cancelRet, cancelledAll, chanVars, poolVars, cqVars>>

\* else: condition_.wait_until(lock, nextTime, [] { return shouldStop_; })
\* with nextTime the first key of timerTasks_; if it returns true: break.
WorkerWaitUntil(t) ==
    /\ ~aborted
    /\ twork[t].pc = "lock"
    /\ timerTasks_ # <<>>
    /\ Head(timerTasks_).at > now
    /\ twork' = [twork EXCEPT ![t] =
                    IF shouldStop_ THEN [@ EXCEPT !.pc = "exited"]
                    ELSE [pc |-> "waitUntil", until |-> Head(timerTasks_).at,
                          ntf |-> FALSE]]
    /\ UNCHANGED <<running_, shouldStop_, timerTasks_, timerMap_, timers,
                   nextTimerId_, now, workerThread_, stopPc, aborted, poolDown,
                   sched, wrapQueue, wrapExec, dispatched, cancelled, lateFired,
                   returnedIds, cancelRet, cancelledAll, chanVars, poolVars, cqVars>>

\* wait_until returns: its predicate holds (break), or nextTime is reached
\* and it returns the predicate.  A notify_one() that finds the predicate
\* false leaves the thread waiting for the same nextTime.
WorkerWakeUntil(t) ==
    /\ ~aborted
    /\ twork[t].pc = "waitUntil"
    /\ shouldStop_ \/ now >= twork[t].until
    /\ twork' = [twork EXCEPT ![t] =
                    [pc |-> IF shouldStop_ THEN "exited" ELSE "top", until |-> 0,
                     ntf |-> FALSE]]
    /\ UNCHANGED <<running_, shouldStop_, timerTasks_, timerMap_, timers,
                   nextTimerId_, now, workerThread_, stopPc, aborted, poolDown,
                   sched, wrapQueue, wrapExec, dispatched, cancelled, lateFired,
                   returnedIds, cancelRet, cancelledAll, chanVars, poolVars, cqVars>>

\* A thread that a notify woke finds its predicate false (and, in
\* wait_until, its time not reached): it waits again.
WorkerWaitAgain(t) ==
    /\ ~aborted
    /\ twork[t].ntf
    /\ ~shouldStop_
    /\ \/ twork[t].pc = "waitEmpty" /\ timerTasks_ = <<>>
       \/ twork[t].pc = "waitUntil" /\ now < twork[t].until
    /\ twork' = [twork EXCEPT ![t] = [@ EXCEPT !.ntf = FALSE]]
    /\ UNCHANGED <<running_, shouldStop_, timerTasks_, timerMap_, timers,
                   nextTimerId_, now, workerThread_, stopPc, aborted, poolDown,
                   sched, wrapQueue, wrapExec, dispatched, cancelled, lateFired,
                   returnedIds, cancelRet, cancelledAll, chanVars, poolVars, cqVars>>

\* A pool worker takes the next wrappedCallback from the pool's queue.
WrapperTake(w) ==
    /\ ~aborted
    /\ wrapExec[w].pc = "idle"
    /\ wrapQueue # <<>>
    /\ wrapExec' = [wrapExec EXCEPT ![w] = [pc |-> "check", id |-> Head(wrapQueue)]]
    /\ wrapQueue' = Tail(wrapQueue)
    /\ UNCHANGED <<running_, shouldStop_, timerTasks_, timerMap_, timers,
                   nextTimerId_, now, twork, workerThread_, stopPc, aborted,
                   poolDown, sched, dispatched, cancelled, lateFired, returnedIds,
                   cancelRet, cancelledAll, chanVars, poolVars, cqVars>>

\* if (!task->isCancelled): the wrapper reads the flag, without mutex_.
WrapperCheck(w) ==
    /\ ~aborted
    /\ wrapExec[w].pc = "check"
    /\ wrapExec' = [wrapExec EXCEPT ![w] =
                       IF timers[wrapExec[w].id].isCancelled THEN IdleExec
                       ELSE [@ EXCEPT !.pc = "call"]]
    /\ UNCHANGED <<running_, shouldStop_, timerTasks_, timerMap_, timers,
                   nextTimerId_, now, twork, workerThread_, stopPc, aborted,
                   poolDown, sched, wrapQueue, dispatched, cancelled, lateFired,
                   returnedIds, cancelRet, cancelledAll, chanVars, poolVars, cqVars>>

\* task->callback(): the callback starts (and runs to its end).
WrapperCall(w) ==
    /\ ~aborted
    /\ wrapExec[w].pc = "call"
    /\ lateFired' = IF wrapExec[w].id \in cancelled
                    THEN lateFired \cup {wrapExec[w].id} ELSE lateFired
    /\ wrapExec' = [wrapExec EXCEPT ![w] = IdleExec]
    /\ UNCHANGED <<running_, shouldStop_, timerTasks_, timerMap_, timers,
                   nextTimerId_, now, twork, workerThread_, stopPc, aborted,
                   poolDown, sched, wrapQueue, dispatched, cancelled, returnedIds,
                   cancelRet, cancelledAll, chanVars, poolVars, cqVars>>

\* A caller cancels an id that timerMap_ holds.
HeldCancel(id) == id \in timerMap_ /\ Cancel(id)

NextTimer ==
    \/ Start
    \/ StopFlags
    \/ StopNotify
    \/ StopJoin
    \/ StopReset
    \/ StopShutdown
    \/ \E cb \in BOOLEAN, d \in 0..MaxDelay : ScheduleOnce(1, cb, d)
    \/ \E cb \in BOOLEAN, i \in 0..MaxDelay, d \in 0..MaxDelay : ScheduleRepeating(1, cb, i, d)
    \/ ScheduleInsert(1)
    \/ ScheduleNotify(1)
    \/ ScheduleReturn(1)
    \/ \E id \in 1..MaxTimers : HeldCancel(id)
    \/ Tick
    \/ \E t \in 1..MaxStarts : WorkerTest(t) \/ WorkerWaitEmpty(t) \/ WorkerWakeEmpty(t)
    \/ \E t \in 1..MaxStarts : ExecuteExpiredTimers(t) \/ WorkerWaitUntil(t) \/ WorkerWakeUntil(t)
    \/ \E t \in 1..MaxStarts : WorkerWaitAgain(t)
    \/ \E w \in TimerWorkers : WrapperTake(w) \/ WrapperCheck(w) \/ WrapperCall(w)

\* ------------------------------------------------------------------ circular queue
\* Values pushed into the CircularQueue in one run.
MaxPushes == 6

NoReturn == [op |-> "none", ok |-> FALSE, val |-> 0]

\* CircularQueue(capacity): capacity_(capacity == 0 ? 1 : capacity),
\* buffer_(capacity_) of value-initialised elements, head_(0), tail_(0),
\* size_(0).
NewCircularQueue(ns) ==
    /\ cq \in {[capacity_ |-> CoerceCapacity(n),
                buffer_ |-> [i \in 0..(CoerceCapacity(n) - 1) |-> 0],
                head_ |-> 0, tail_ |-> 0, size_ |-> 0] : n \in ns}
    /\ cqRet = NoReturn
    /\ pushed = 0

\* A ForcePush that would never take the queue for full.
Overwrote_Never == FALSE

\* bool overwrote = (size_ >= capacity_);
Overwrote == cq.size_ >= cq.capacity_

\* (i + 1) % capacity_
RingNext(i) == (i + 1) % cq.capacity_

\* TryPush(value), under mutex_: false if size_ >= capacity_; else
\* buffer_[tail_] = value; tail_ = (tail_ + 1) % capacity_; ++size_; true.
QueueTryPush ==
    /\ pushed < MaxPushes
    /\ IF cq.size_ >= cq.capacity_
       THEN /\ cqRet' = [op |-> "TryPush", ok |-> FALSE, val |-> 0]
            /\ UNCHANGED <<cq, pushed>>
       ELSE /\ cq' = [cq EXCEPT !.buffer_ = [@ EXCEPT ![cq.tail_] = pushed + 1],
                                !.tail_ = RingNext(cq.tail_),
                                !.size_ = cq.size_ + 1]
            /\ pushed' = pushed + 1
            /\ cqRet' = [op |-> "TryPush", ok |-> TRUE, val |-> 0]
    /\ UNCHANGED <<chanVars, poolVars, timerVars>>

\* ForcePush(value), under mutex_: overwrote = (size_ >= capacity_); if
\* overwrote, head_ = (head_ + 1) % capacity_, else ++size_; buffer_[tail_]
\* = value; tail_ = (tail_ + 1) % capacity_; return overwrote.
QueueForcePush ==
    /\ pushed < MaxPushes
    /\ cq' = [cq EXCEPT !.head_ = IF Overwrote THEN RingNext(cq.head_) ELSE cq.head_,
                        !.size_ = IF Overwrote THEN cq.size_ ELSE cq.size_ + 1,
                        !.buffer_ = [@ EXCEPT ![cq.tail_] = pushed + 1],
                        !.tail_ = RingNext(cq.tail_)]
    /\ pushed' = pushed + 1
    /\ cqRet' = [op |-> "ForcePush", ok |-> Overwrote, val |-> 0]
    /\ UNCHANGED <<chanVars, poolVars, timerVars>>

\* TryPop(), under mutex_: std::nullopt if size_ == 0; else the value of
\* buffer_[head_]; head_ = (head_ + 1) % capacity_; --size_.
QueueTryPop ==
    /\ IF cq.size_ = 0
       THEN /\ cqRet' = [op |-> "TryPop", ok |-> FALSE, val |-> 0]
            /\ UNCHANGED cq
       ELSE /\ cqRet' = [op |-> "TryPop", ok |-> TRUE, val |-> cq.buffer_[cq.head_]]
            /\ cq' = [cq EXCEPT !.head_ = RingNext(cq.head_), !.size_ = cq.size_ - 1]
    /\ UNCHANGED <<pushed, chanVars, poolVars, timerVars>>

\* Clear(), under mutex_: head_ = 0; tail_ = 0; size_ = 0.
QueueClear ==
    /\ cq' = [cq EXCEPT !.head_ = 0, !.tail_ = 0, !.size_ = 0]
    /\ cqRet' = [op |-> "Clear", ok |-> FALSE, val |-> 0]
    /\ UNCHANGED <<pushed, chanVars, poolVars, timerVars>>

\* One thread at a time holds mutex_ for a whole call: any sequence of calls.
NextQueue ==
    \/ QueueTryPush
    \/ QueueForcePush
    \/ QueueTryPop
    \/ QueueClear

\* ------------------------------------------------------------------ channel: specifications
SenderCalls(p) ==
    \/ TrySend(p)
    \/ Send(p)
    \/ SendCheckClosed(p)
    \/ SendReturn(p)

SinglePush(p) ==
    \/ PushLoadTail(p)
    \/ PushLoadHead(p)
    \/ PushEmplace(p)
    \/ PushEmplaceDone(p)
    \/ PushStoreTail(p)

MultiPush(p) ==
    \/ PushLoadTail(p)
    \/ PushLoadHead(p)
    \/ PushCas(p)
    \/ PushCasFail(p)
    \/ PushEmplace(p)
    \/ PushEmplaceDone(p)

ReceiverCalls(c) ==
    \/ TryRecv(c)
    \/ Recv(c)
    \/ RecvCheckClosed(c)
    \/ RecvReturn(c)

SpscPop(c) ==
    \/ PopLoadHead(c)
    \/ PopLoadTail(c)
    \/ PopMove(c)
    \/ PopReset(c)
    \/ PopStoreHead(c)

MpscPop(c) ==
    \/ PopLoadHead(c)
    \/ PopLoadTail(c)
    \/ PopSpinSingle(c)
    \/ PopReloadHead(c)
    \/ PopReloadTail(c)
    \/ PopCopyRead(c)
    \/ PopCopyWrite(c)
    \/ PopMove(c)
    \/ PopReset(c)
    \/ PopStoreHead(c)

MultiPop(c) ==
    \/ PopLoadHead(c)
    \/ PopLoadTail(c)
    \/ PopSpinMulti(c)
    \/ PopReloadHead(c)
    \/ PopReloadTail(c)
    \/ PopCas(c)
    \/ PopCasFail(c)
    \/ PopMove(c)
    \/ PopReset(c)

NextSpsc ==
    \/ \E p \in 1..NumProducers : SenderCalls(p) \/ SinglePush(p)
    \/ \E c \in 1..NumConsumers : ReceiverCalls(c) \/ SpscPop(c)
    \/ Close

NextMpsc ==
    \/ \E p \in 1..NumProducers : SenderCalls(p) \/ MultiPush(p)
    \/ \E c \in 1..NumConsumers : ReceiverCalls(c) \/ MpscPop(c)
    \/ Close

NextSpmc ==
    \/ \E p \in 1..NumProducers : SenderCalls(p) \/ SinglePush(p)
    \/ \E c \in 1..NumConsumers : ReceiverCalls(c) \/ MultiPop(c)
    \/ Close

\* Threads that call TrySend, TryRecv and Size() on a channel of any of
\* the four variants.
NextChan ==
    \/ \E p \in 1..NumProducers : TrySend(p) \/ SendReturn(p) \/ SinglePush(p) \/ PushCas(p) \/ PushCasFail(p)
    \/ \E c \in 1..NumConsumers : TryRecv(c) \/ RecvReturn(c) \/ MpscPop(c) \/ PopSpinMulti(c) \/ PopCas(c) \/ PopCasFail(c)
    \/ \E c \in 1..NumConsumers : Size(c) \/ SizeLoadTail(c)

\* The same calls made one at a time: no call begins before the last has
\* returned.  The reload after a used-up spin budget and the copy
\* assignment of MPSC need a second thread inside a push: they are not
\* steps of these runs.
NextSolo ==
    \/ \E p \in 1..NumProducers : TrySend(p) \/ SendReturn(p) \/ SinglePush(p) \/ PushCas(p) \/ PushCasFail(p)
    \/ \E c \in 1..NumConsumers : TryRecv(c) \/ RecvReturn(c) \/ SpscPop(c) \/ PopSpinSingle(c)
    \/ \E c \in 1..NumConsumers : PopSpinMulti(c) \/ PopCas(c) \/ PopCasFail(c)

\* One call at a time on a channel of any of the four variants, Send, Recv
\* and Close() included: a call that finds the channel closed, or that was
\* made before Close(), is told apart by closed_ at its return.
NextClosing ==
    \/ NextSolo
    \/ \E p \in 1..NumProducers : Send(p) \/ SendCheckClosed(p)
    \/ \E c \in 1..NumConsumers : Recv(c) \/ RecvCheckClosed(c)
    \/ Close

\* MPSC threads that call TrySend and TryRecv.
NextStall ==
    \/ \E p \in 1..NumProducers : TrySend(p) \/ SendReturn(p) \/ MultiPush(p)
    \/ \E c \in 1..NumConsumers : TryRecv(c) \/ RecvReturn(c) \/ MpscPop(c)

\* The steps of receiver c inside a call it has begun.
InsideRecv(c) == RecvReturn(c) \/ MpscPop(c)

\* MPSC threads that call TrySend and TryRecv, and a thread that calls
\* Clear() while none of them is inside a call.
NextClear ==
    \/ \E p \in 1..NumProducers : TrySend(p) \/ SendReturn(p) \/ MultiPush(p)
    \/ \E c \in 1..NumConsumers : TryRecv(c) \/ RecvReturn(c) \/ MpscPop(c)
    \/ Clear

InitSpsc == InitChannel({"spsc"}, 1..MaxCapacity, FALSE) /\ NewThreadPool /\ NewAsyncTimer /\ NewCircularQueue({1})

SpecSpsc == InitSpsc /\ [][NextSpsc]_vars

InitMpsc == InitChannel({"mpsc"}, 1..MaxCapacity, FALSE) /\ NewThreadPool /\ NewAsyncTimer /\ NewCircularQueue({1})

SpecMpsc == InitMpsc /\ [][NextMpsc]_vars

InitSpmc == InitChannel({"spmc"}, 1..MaxCapacity, FALSE) /\ NewThreadPool /\ NewAsyncTimer /\ NewCircularQueue({1})

SpecSpmc == InitSpmc /\ [][NextSpmc]_vars

InitChan == InitChannel(Variants, 1..MaxCapacity, FALSE) /\ NewThreadPool /\ NewAsyncTimer /\ NewCircularQueue({1})

SpecChan == InitChan /\ [][NextChan]_vars

InitSolo == InitChannel(Variants, 0..MaxCapacity, TRUE) /\ NewThreadPool /\ NewAsyncTimer /\ NewCircularQueue({1})

SpecSolo == InitSolo /\ [][NextSolo]_vars

InitClosing == InitChannel(Variants, 1..MaxCapacity, TRUE) /\ NewThreadPool /\ NewAsyncTimer /\ NewCircularQueue({1})

SpecClosing == InitClosing /\ [][NextClosing]_vars

InitStall == InitChannel({"mpsc"}, 1..MaxCapacity, FALSE) /\ NewThreadPool /\ NewAsyncTimer /\ NewCircularQueue({1})

\* The receiver's thread is scheduled for as long as its call lasts, and a
\* call that has its result returns.  (Strong fairness: a receiver's step
\* is held back only while another thread is at its return.)  A sender
\* inside TryPush may stop for good at any step: no fairness is asked of it.
SpecStall ==
    /\ InitStall
    /\ [][NextStall]_vars
    /\ \A c \in 1..NumConsumers : SF_vars(InsideRecv(c))
    /\ \A p \in 1..NumProducers : WF_vars(SendReturn(p))

\* An SPMC channel with its producer thread, which calls Send and Close(),
\* and one consumer thread, which calls Recv.
NextDrain ==
    \/ Send(1) \/ SendCheckClosed(1) \/ SendReturn(1) \/ SinglePush(1)
    \/ Recv(1) \/ RecvCheckClosed(1) \/ RecvReturn(1) \/ MultiPop(1)
    \/ Close

\* The steps of sender p inside a call it has begun.
InsideSend(p) == SendCheckClosed(p) \/ SendReturn(p) \/ SinglePush(p)

\* The steps of receiver c inside a Recv it has begun.
InsideDrain(c) == RecvCheckClosed(c) \/ RecvReturn(c) \/ MultiPop(c)

InitDrain == InitChannel({"spmc"}, {1}, FALSE) /\ NewThreadPool /\ NewAsyncTimer /\ NewCircularQueue({1})

\* Every thread is scheduled for as long as its call lasts, and a
\* compare_exchange_weak that could succeed again and again does succeed
\* (it fails spuriously, not for ever).
SpecDrain ==
    /\ InitDrain
    /\ [][NextDrain]_vars
    /\ SF_vars(InsideSend(1))
    /\ SF_vars(InsideDrain(1))
    /\ SF_vars(PopCas(1))

\* Two threads that call ScheduleOnce and ScheduleRepeating while a third
\* calls Start() and Stop(); the clock stands still.
NextSched ==
    \/ Start
    \/ StopFlags
    \/ StopNotify
    \/ StopJoin
    \/ StopReset
    \/ StopShutdown
    \/ \E s \in 1..NumSchedulers, cb \in BOOLEAN, d \in 0..MaxDelay : ScheduleOnce(s, cb, d)
    \/ \E s \in 1..NumSchedulers, cb \in BOOLEAN, i \in 0..MaxDelay, d \in 0..MaxDelay :
           ScheduleRepeating(s, cb, i, d)
    \/ \E s \in 1..NumSchedulers : ScheduleInsert(s) \/ ScheduleNotify(s) \/ ScheduleReturn(s)
    \/ \E t \in 1..MaxStarts : WorkerTest(t) \/ WorkerWaitEmpty(t) \/ WorkerWakeEmpty(t)
    \/ \E t \in 1..MaxStarts : ExecuteExpiredTimers(t) \/ WorkerWaitUntil(t) \/ WorkerWakeUntil(t)
    \/ \E t \in 1..MaxStarts : WorkerWaitAgain(t)

InitSched == InitChannel({"spsc"}, {1}, FALSE) /\ NewThreadPool /\ NewAsyncTimer /\ NewCircularQueue({1})

SpecSched == InitSched /\ [][NextSched]_vars

\* A thread that calls Start() and Stop(), a thread that schedules tasks,
\* the clock and the timer thread.
NextStop ==
    \/ Start
    \/ StopFlags
    \/ StopNotify
    \/ StopJoin
    \/ StopReset
    \/ StopShutdown
    \/ \E cb \in BOOLEAN, d \in 0..MaxDelay : ScheduleOnce(1, cb, d)
    \/ \E cb \in BOOLEAN, i \in 0..MaxDelay, d \in 0..MaxDelay : ScheduleRepeating(1, cb, i, d)
    \/ ScheduleInsert(1)
    \/ ScheduleNotify(1)
    \/ ScheduleReturn(1)
    \/ Tick
    \/ \E t \in 1..MaxStarts : WorkerTest(t) \/ WorkerWaitEmpty(t) \/ WorkerWakeEmpty(t)
    \/ \E t \in 1..MaxStarts : ExecuteExpiredTimers(t) \/ WorkerWaitUntil(t) \/ WorkerWakeUntil(t)
    \/ \E t \in 1..MaxStarts : WorkerWaitAgain(t)

\* The steps of Stop() after its block under mutex_.
InsideStop == StopNotify \/ StopJoin \/ StopReset \/ StopShutdown

\* The steps of timer thread t while it is not blocked in a wait.
WorkerRuns(t) ==
    WorkerTest(t) \/ WorkerWaitEmpty(t) \/ ExecuteExpiredTimers(t) \/ WorkerWaitUntil(t)

\* Timer thread t leaves condition_.wait or wait_until because it was
\* notified or because its time has come, and tests its predicate.
WorkerWoken(t) ==
    \/ twork[t].ntf /\ (WorkerWakeEmpty(t) \/ WorkerWakeUntil(t) \/ WorkerWaitAgain(t))
    \/ twork[t].pc = "waitUntil" /\ now >= twork[t].until /\ WorkerWakeUntil(t)

InitStop == InitChannel({"spsc"}, {1}, FALSE) /\ NewThreadPool /\ NewAsyncTimer /\ NewCircularQueue({1})

\* The thread inside Stop() and the timer threads are scheduled; a waiting
\* thread is sure to wake only by a notify or at its time, not spuriously.
SpecStop ==
    /\ InitStop
    /\ [][NextStop]_vars
    /\ WF_vars(InsideStop)
    /\ \A t \in 1..MaxStarts : WF_vars(WorkerRuns(t)) /\ WF_vars(WorkerWoken(t))

\* A started timer with one thread that schedules, threads that call
\* Cancel (for any id) and CancelAll, the worker thread and the pool.
NextCancel ==
    \/ Start
    \/ \E cb \in BOOLEAN, d \in 0..MaxDelay : ScheduleOnce(1, cb, d)
    \/ \E cb \in BOOLEAN, i \in 0..MaxDelay, d \in 0..MaxDelay : ScheduleRepeating(1, cb, i, d)
    \/ ScheduleInsert(1)
    \/ ScheduleNotify(1)
    \/ ScheduleReturn(1)
    \/ \E id \in 1..MaxTimers : Cancel(id)
    \/ CancelAll
    \/ Tick
    \/ \E t \in 1..MaxStarts : WorkerTest(t) \/ WorkerWaitEmpty(t) \/ WorkerWakeEmpty(t)
    \/ \E t \in 1..MaxStarts : ExecuteExpiredTimers(t) \/ WorkerWaitUntil(t) \/ WorkerWakeUntil(t)
    \/ \E t \in 1..MaxStarts : WorkerWaitAgain(t)
    \/ \E w \in TimerWorkers : WrapperTake(w) \/ WrapperCheck(w) \/ WrapperCall(w)

InitCancel == InitChannel({"spsc"}, {1}, FALSE) /\ NewThreadPool /\ NewAsyncTimer /\ NewCircularQueue({1})

SpecCancel == InitCancel /\ [][NextCancel]_vars

\* A pool that is not shut down: threads that add tasks, and the workers.
NextPoolLive ==
    \/ \E tag \in SerialTags \cup {""} : AddTask(tag)
    \/ \E w \in Workers : WorkerTake(w) \/ WorkerFinish(w)

InitPoolLive == InitChannel({"spsc"}, {1}, FALSE) /\ NewThreadPool /\ NewAsyncTimer /\ NewCircularQueue({1})

\* Every worker is scheduled, and every task that runs comes to its end.
SpecPoolLive ==
    /\ InitPoolLive
    /\ [][NextPoolLive]_vars
    /\ \A w \in Workers : WF_vars(WorkerTake(w)) /\ WF_vars(WorkerFinish(w))

InitClear == InitChannel({"mpsc"}, 1..MaxCapacity, FALSE) /\ NewThreadPool /\ NewAsyncTimer /\ NewCircularQueue({1})

SpecClear == InitClear /\ [][NextClear]_vars

InitQueue ==
    /\ InitChannel({"spsc"}, {1}, FALSE)
    /\ NewThreadPool
    /\ NewAsyncTimer
    /\ NewCircularQueue(0..MaxCapacity)

SpecQueue == InitQueue /\ [][NextQueue]_vars

InitPool == InitChannel({"spsc"}, {1}, FALSE) /\ NewThreadPool /\ NewAsyncTimer /\ NewCircularQueue({1})

SpecPool == InitPool /\ [][NextPool]_vars

InitTimer == InitChannel({"spsc"}, {1}, FALSE) /\ NewThreadPool /\ NewAsyncTimer /\ NewCircularQueue({1})

SpecTimer == InitTimer /\ [][NextTimer]_vars

\* ------------------------------------------------------------------ claims
\* The values a receiver returned, as a set.
ReceivedValues == {recvd[i].val : i \in 1..Len(recvd)}

\* C1 (SpecSpmc): every value whose send returned true is returned to
\* exactly one consumer: the consumer that took ring index h returns the
\* value sent with index h (never the value of index h + C), no index and
\* no value is returned twice, and no consumer finds the slot it took empty.
C1_EachValueToOneConsumer ==
    /\ \A i \in 1..Len(recvd) : recvd[i].val = ValueAt(recvd[i].idx)
    /\ \A i, j \in 1..Len(recvd) : i # j => recvd[i].val # recvd[j].val
    /\ \A c \in 1..NumConsumers : cons[c].pc # "threw"

\* Ring index i has not been received and its value waits in its slot, or
\* is in the hands of the consumer that has just taken it out.
Waits(i) ==
    \/ buffer_[SlotOf(i)] = [engaged |-> TRUE, val |-> ValueAt(i)]
    \/ i = head_ /\ cons[1].pc = "storeH" /\ cons[1].res = ValueAt(i)

\* C2 (SpecMpsc): when Close() ran only after every producer had finished
\* all its sends, the consumer receives exactly the values sent, each once:
\* what it has received are the values of the indices below head_, every
\* other value sent still waits for it, and when its Recv() returns
\* nullopt it has received them all.
C2_AllReceivedOnce ==
    (closed_ /\ ~closeEarly)
    => /\ Len(recvd) = head_
       /\ ReceivedValues = {ValueAt(i) : i \in 0..(head_ - 1)}
       /\ \A i \in head_..(tail_ - 1) : Waits(i)
       /\ (cons[1].pc = "retNullopt" /\ cons[1].op = "RecvLast") => Len(recvd) = tail_

\* C6 (SpecSpsc): the values the receiver returned are, in order, the
\* values sent: the i-th value returned is the i-th value sent, none is
\* skipped or repeated, and no more are returned than were sent.
C6_SameSequence ==
    /\ \A i \in 1..Len(recvd) : recvd[i] = [idx |-> i - 1, val |-> ValueAt(i - 1)]
    /\ Len(recvd) <= tail_
    /\ cons[1].pc # "threw"

\* All values have gone through a ring of capacity 1 (the ring wrapped
\* for each), with the producer inside its last call while the consumer
\* returned the value before.
C6_Witness ==
    /\ capacity_ = 1
    /\ Len(recvd) = MaxSends
    /\ head_ = MaxSends

\* C7 (SpecMpsc): the consumer receives the values in the order of the
\* successful tail CAS events: the i-th value it returns is the value sent
\* with ring index i - 1.
C7_CasOrder ==
    \A i \in 1..Len(recvd) : recvd[i] = [idx |-> i - 1, val |-> ValueAt(i - 1)]

\* C8 (SpecChan): in every reachable state of every variant
\* 0 <= tail - head <= C, and every value Size() returns lies in [0, C].
C8_IndexAndSizeBounds ==
    /\ 0 <= tail_ - head_
    /\ tail_ - head_ <= capacity_
    /\ \A c \in 1..NumConsumers :
          cons[c].pc = "retSize" => cons[c].res \in 0..capacity_

\* An MPMC Size() that read head_ before pops and pushes moved both
\* indices returns C, cut down from a difference above C.
C8_Witness ==
    /\ variant = "mpmc"
    /\ \E c \in 1..NumConsumers :
          /\ cons[c].pc = "retSize"
          /\ tail_ - cons[c].h > capacity_
          /\ cons[c].res = capacity_
    /\ head_ > 0

\* max(n, 1) for the capacity n that the channel was made with.
HoldsAtMost == IF asked > 1 THEN asked ELSE 1

\* C9 (SpecSolo): a channel made with capacity n holds exactly max(n, 1)
\* values: a TrySend returns true when fewer were held (so the first
\* max(n, 1) succeed), false when max(n, 1) were held, and true again
\* after a successful TryRecv.
C9_HoldsExactlyCapacity ==
    \A p \in 1..NumProducers :
        /\ prod[p].pc = "retTrue" => Held <= HoldsAtMost
        /\ prod[p].pc = "retFalse" => Held = HoldsAtMost

\* A channel asked for with capacity 0 has refused a second value, and
\* takes one again after a TryRecv.
C9_Witness ==
    /\ asked = 0
    /\ \E p \in 1..NumProducers : prod[p].pc = "retTrue"
    /\ tail_ = 2
    /\ Len(recvd) = 1

\* C10 (SpecMpsc): TrySend returns false only if the channel is full
\* (tail - head >= C) when it has read the indices.
C10_FalseOnlyWhenFull ==
    \A p \in 1..NumProducers :
        (prod[p].pc = "retFalse" /\ prod[p].op = "TrySend")
        => tail_ - head_ >= capacity_

\* The workers that run a task of tag t.
RunningTag(t) == {w \in Workers : threads_[w].st = "run" /\ threads_[w].item.tag = t}

\* C3 (SpecPool): for every non-empty tag at most one worker is executing
\* a task of that tag.
C3_OneWorkerPerTag ==
    \A t \in SerialTags : Cardinality(RunningTag(t)) <= 1

\* Two workers run tasks of two tags, and a further task of one of the
\* tags was added while its tag was running.
C3_Witness ==
    /\ \A t \in SerialTags : Cardinality(RunningTag(t)) = 1
    /\ \E t \in SerialTags : QueueOf(t) # <<>>

\* C4 (SpecPool): the tasks of a non-empty tag start in the order in which
\* AddTask queued them (tasks are numbered in the order of the AddTask calls).
C4_FifoPerTag ==
    \A i, j \in 1..Len(started) :
        (i < j /\ started[i].tag = started[j].tag /\ started[i].tag # "")
        => started[i].id < started[j].id

\* Two tasks of one tag have started in their order, and a task of another
\* tag or of no tag, queued between them, started before both or after both.
C4_Witness ==
    \E i, j, k \in 1..Len(started) :
        /\ i < j
        /\ started[i].tag = "a" /\ started[j].tag = "a"
        /\ started[k].tag # "a"
        /\ started[i].id < started[k].id /\ started[k].id < started[j].id
        /\ (k < i \/ k > j)

\* C5 (SpecTimer): once Cancel(id) has returned true, the callback of the
\* task is not started again.
C5_NoStartAfterCancel == lateFired = {}

\* C11 (SpecClosing): on every variant a send made after Close() returns
\* false, TrySend as well as Send, whether or not the buffer has a free
\* slot.  Calls do not overlap in SpecClosing, so a call that returns on a
\* closed channel began on a closed channel.
C11_NoSendAfterClose ==
    \A p \in 1..NumProducers : prod[p].pc = "retTrue" => ~closed_

\* The value sent with ring index i was returned to a receiver.
Returned(i) ==
    \E k \in 1..Len(recvd) : recvd[k].idx = i /\ recvd[k].val = ValueAt(i)

\* A receiver has taken ring index i and has not left TryPop yet.
InHand(i) ==
    \E c \in Receivers : cons[c].h = i /\ cons[c].pc \in {"move", "reset", "storeH"}

\* C12 (SpecSpmc): Recv returns std::nullopt only when closed_ is true and
\* the buffer was seen empty (tail_ = head_) after that, and by then every
\* value that was in the buffer when Close() was called (the ring indexes
\* from head_ up to tail_ of that moment) has been returned by a receiver,
\* or is being returned by one.
C12_DrainedBeforeNullopt ==
    \A c \in 1..NumConsumers :
        (cons[c].pc = "retNullopt" /\ cons[c].op = "RecvLast") =>
            /\ closed_
            /\ tail_ = head_
            /\ \A i \in atClose.head..(atClose.tail - 1) : Returned(i) \/ InHand(i)

\* C13 (SpecStall): TryRecv never suspends: a TryRecv call that has begun
\* returns after steps of its own thread alone, also when a sender that
\* has reserved the head slot (its compare-exchange on tail_ is done) never
\* writes the slot.
C13_TryRecvReturns ==
    \A c \in 1..NumConsumers : (cons[c].op = "TryRecv") ~> (cons[c].pc = "idle")

\* C14 (SpecClosing): closed_ is a one-way flag: once IsClosed() is true it
\* is true in every later state, whatever is called; a Close() on a closed
\* channel changes nothing at all; and no Close() changes head_, tail_ or
\* a slot.
C14_CloseOneWay ==
    [][/\ IsClosed => IsClosed'
       /\ Close => UNCHANGED <<head_, tail_, buffer_>>
       /\ (Close /\ IsClosed) => UNCHANGED vars]_vars

\* The channel was closed with a value in it, and since then a value was
\* sent and a value was received.
C14_Witness ==
    /\ IsClosed
    /\ atClose.tail > atClose.head
    /\ tail_ > atClose.tail
    /\ head_ > atClose.head

\* C15 (SpecSpmc): a slot is emptied by the receiver that took it before
\* head_ moves past it, so a sender that saw room for its ring index and
\* is about to write the slot of that index finds the slot empty.
C15_WritesIntoEmptySlot ==
    \A p \in 1..NumProducers :
        prod[p].pc = "emplace" => ~buffer_[SlotOf(prod[p].t)].engaged

\* C16 (SpecTimer): a cancelled task is dropped from both indexes when the
\* worker reaches its deadline: a one-shot task for which Cancel returned
\* true and whose element has left timerTasks_ is no key of timerMap_
\* either, so GetActiveTimerCount() does not count it.
C16_CancelledDropped ==
    \A id \in 1..Len(timers) :
        (id \in cancelled /\ ~timers[id].isRepeating /\ ~InTimerTasks(id)) =>
            /\ id \notin timerMap_
            /\ GetActiveTimerCount = Cardinality(timerMap_ \ {id})

\* A Schedule call returns 0 and leaves both indexes and the id counter
\* as they were.
Refused ==
    /\ sched'[1].pc = "returned"
    /\ sched'[1].ret = 0
    /\ UNCHANGED <<timerTasks_, timerMap_, nextTimerId_>>

\* C17 (SpecTimer): ScheduleOnce returns 0 when the callback is null or the
\* timer is not running, ScheduleRepeating also when the interval is 0,
\* and then timerTasks_, timerMap_ and nextTimerId_ are unchanged; every
\* other call goes on to its insertion and returns a non-zero id whose
\* task is in both indexes.
C17_ScheduleResult ==
    [][/\ \A cb \in BOOLEAN, d \in 0..MaxDelay :
              (sched[1].pc = "idle" /\ sched'[1].pc # "idle" /\ ScheduleOnce(1, cb, d)) =>
                  IF ~cb \/ ~running_ THEN Refused ELSE sched'[1].pc = "insert"
       /\ \A cb \in BOOLEAN, i \in 0..MaxDelay, d \in 0..MaxDelay :
              (sched[1].pc = "idle" /\ sched'[1].pc # "idle"
                   /\ ScheduleRepeating(1, cb, i, d)) =>
                  IF ~cb \/ i = 0 \/ ~running_ THEN Refused ELSE sched'[1].pc = "insert"
       /\ sched[1].pc = "insert" =>
              \/ sched' = sched
              \/ /\ sched'[1].pc = "notify"
                 /\ sched'[1].id # 0
                 /\ sched'[1].id \in timerMap_'
                 /\ \E k \in 1..Len(timerTasks_') : timerTasks_'[k].id = sched'[1].id
       /\ sched[1].pc = "notify" =>
              \/ sched' = sched
              \/ /\ sched'[1].pc = "returned"
                 /\ sched'[1].ret = sched[1].id
                 /\ UNCHANGED <<timerTasks_, timerMap_, nextTimerId_>>
       /\ (sched'[1].pc = "returned" /\ sched[1].pc = "idle") => sched'[1].ret = 0]_vars

\* A call was refused on a timer that was stopped with a task in it, after
\* another call had been accepted.
C17_Witness ==
    /\ sched[1].pc = "returned"
    /\ sched[1].ret = 0
    /\ ~running_
    /\ timerMap_ # {}
    /\ nextTimerId_ > 1

\* C18 (SpecTimer): whatever the order of the Start() and Stop() calls, also
\* when a Start() runs while a Stop() has not returned, at most one thread
\* runs TimerWorker() at any time.
C18_AtMostOneWorker == Cardinality(LiveWorkers) <= 1

\* C19 (SpecTimer): a task scheduled with a deadline before the one the
\* worker waits for interrupts the wait: whenever the first deadline of
\* timerTasks_ has passed, a worker inside wait_until waits for a time
\* that has passed too, so that it goes on to dispatch the task.  (Once
\* the notify_one() of the Schedule call is done and the worker has
\* looked at its predicate.)
C19_WaitInterrupted ==
    \A t \in 1..MaxStarts :
        (/\ twork[t].pc = "waitUntil"
         /\ ~twork[t].ntf
         /\ \A s \in 1..NumSchedulers : sched[s].pc \notin {"insert", "notify"}
         /\ timerTasks_ # <<>>
         /\ Head(timerTasks_).at <= now) =>
            twork[t].until <= now

\* How many times id was given to the thread pool.
RECURSIVE Dispatches(_, _)
Dispatches(ds, id) ==
    IF ds = <<>> THEN 0
    ELSE (IF Head(ds) = id THEN 1 ELSE 0) + Dispatches(Tail(ds), id)

\* C20 (SpecTimer): a one-shot task is given to the thread pool at most
\* once, and not at all after a Cancel that came before its expiry; the
\* pass of the worker that finds it expired and not cancelled gives it to
\* the pool and removes it from timerTasks_ and from timerMap_, so that
\* GetActiveTimerCount() drops by one for every one-shot task dispatched.
C20_OneShotOnce ==
    /\ [](\A id \in 1..Len(timers) :
             ~timers[id].isRepeating =>
                 /\ Dispatches(dispatched, id) <= 1
                 /\ id \in cancelled => Dispatches(dispatched, id) = 0
                 /\ Dispatches(dispatched, id) = 1 =>
                        (id \notin timerMap_ /\ ~InTimerTasks(id))
                 /\ (/\ id \notin cancelled
                     /\ ~InTimerTasks(id)
                     /\ \A s \in 1..NumSchedulers :
                            ~(sched[s].pc = "insert" /\ sched[s].id = id)) =>
                        Dispatches(dispatched, id) = 1)
    /\ [][\A t \in 1..MaxStarts :
              ExecuteExpiredTimers(t) =>
                  GetActiveTimerCount' = GetActiveTimerCount -
                      Cardinality({id \in 1..Len(timers) :
                          ~timers[id].isRepeating
                          /\ Dispatches(dispatched', id) > Dispatches(dispatched, id)})]_vars

\* A one-shot task that was not cancelled was dispatched while a second
\* task stays scheduled, and the worker has come to the lock again.
C20_Witness ==
    \E id \in 1..Len(timers) :
        /\ ~timers[id].isRepeating
        /\ id \notin cancelled
        /\ Dispatches(dispatched, id) = 1
        /\ timerMap_ # {}
        /\ \E t \in 1..MaxStarts : twork[t].pc = "lock"

\* C26 (SpecClosing): a Send invoked after Close() has completed returns
\* false without touching the channel: none of its steps changes head_,
\* tail_ or a slot, and it goes from its test of closed_ straight to its
\* return of false, also when the buffer has a free slot.  Calls do not
\* overlap in SpecClosing: a Send in progress on a closed channel began
\* after Close().
C26_SendAfterCloseFrame ==
    [][\A p \in 1..NumProducers :
           (closed_ /\ prod'[p].op = "Send" /\ prod'[p] # prod[p]) =>
               /\ UNCHANGED <<head_, tail_, buffer_, recvd>>
               /\ prod'[p].pc \in {"sendChk", "retFalse"}]_vars

\* A Send returned false on a closed channel that has a free slot.
C26_Witness ==
    /\ closed_
    /\ tail_ - head_ < capacity_
    /\ \E p \in 1..NumProducers : prod[p].pc = "retFalse" /\ prod[p].op = "Send"

\* C24 (SpecChan): MPSC and MPMC: while a producer has reserved ring index
\* t by its compare-exchange on tail_ and has not begun to write the slot,
\* no consumer has taken or returned index t or a later index, and head_
\* has not moved past t.
C24_ReservedNotConsumed ==
    \A p \in 1..NumProducers :
        (MultiProducer /\ prod[p].pc = "emplace") =>
            /\ head_ <= prod[p].t
            /\ \A k \in 1..Len(recvd) : recvd[k].idx < prod[p].t
            /\ \A i \in prod[p].t..MaxSends : ~InHand(i)

\* C25 (SpecDrain): with every thread scheduled fairly, once Close() has been
\* called every Send and every Recv in progress returns: no receiver stays
\* in its loop on a slot that is never written while tail_ # head_.
C25_CallsReturnAfterClose ==
    /\ \A c \in 1..NumConsumers :
           (closed_ /\ cons[c].op \in {"Recv", "RecvLast"}) ~> (cons[c].pc = "idle")
    /\ \A p \in 1..NumProducers :
           (closed_ /\ prod[p].op = "Send") ~> (prod[p].pc = "idle")

\* The task items that wait in tasks_ or in a tag's queue.
Queued ==
    {tasks_[i] : i \in 1..Len(tasks_)}
        \cup UNION {{QueueOf(t)[i] : i \in 1..Len(QueueOf(t))} : t \in SerialTags}

EntriesOf(q, id) == {i \in 1..Len(q) : q[i].id = id}

\* The step gives the task with this id to the thread pool.
Fires(id) == Dispatches(dispatched', id) > Dispatches(dispatched, id)

\* C21 (SpecTimer): the pass that fires a repeating task that is not
\* cancelled gives it to the pool once, enters it into timerTasks_ exactly
\* once, under its id and at now + interval (now of this pass, not the
\* last deadline), and leaves it in timerMap_; its new deadline is later
\* than the one it fired for.
C21_RepeaterRescheduled ==
    [][\A id \in 1..Len(timers) :
           (Fires(id) /\ timers[id].isRepeating) =>
               /\ ~timers[id].isCancelled
               /\ Dispatches(dispatched', id) = Dispatches(dispatched, id) + 1
               /\ Cardinality(EntriesOf(timerTasks_', id)) = 1
               /\ \A i \in EntriesOf(timerTasks_', id) :
                      timerTasks_'[i].at = now + timers[id].interval
               /\ timers'[id].nextExecutionTime = now + timers[id].interval
               /\ timers'[id].nextExecutionTime > timers[id].nextExecutionTime
               /\ id \in timerMap_ /\ id \in timerMap_']_vars

\* A repeating task has fired twice, the second time after its deadline.
C21_Witness ==
    \E id \in 1..Len(timers) :
        /\ timers[id].isRepeating
        /\ Dispatches(dispatched, id) >= 2
        /\ timers[id].nextExecutionTime > MaxTime

\* C27 (SpecTimer): a task is given to the thread pool only by a pass that
\* finds its element of timerTasks_ with a key, its nextExecutionTime, that
\* is not later than now.
C27_NotBeforeDeadline ==
    [][\A id \in 1..Len(timers) :
           Fires(id) =>
               /\ timers[id].nextExecutionTime <= now
               /\ \E i \in EntriesOf(timerTasks_, id) : timerTasks_[i].at <= now
               /\ \E t \in 1..MaxStarts : twork[t].pc = "lock" /\ twork'[t].pc = "top"]_vars

\* A pass has fired one task and left a second one, not yet due, waiting.
C27_Witness ==
    /\ dispatched # <<>>
    /\ \E i \in 1..Len(timerTasks_) :
           /\ timerTasks_[i].at > now
           /\ Dispatches(dispatched, timerTasks_[i].id) = 0
           /\ ~timers[timerTasks_[i].id].isCancelled

\* C28 (SpecTimer): in every state in which mutex_ is free, timerTasks_ and
\* timerMap_ hold the same tasks that are not cancelled, each of them once
\* in timerTasks_, every key of timerTasks_ is the nextExecutionTime of its
\* task, and no step enters a cancelled task into timerTasks_ or timerMap_.
C28_IndexesAgree ==
    /\ [](/\ {id \in 1..Len(timers) : InTimerTasks(id) /\ ~timers[id].isCancelled}
              = {id \in timerMap_ : ~timers[id].isCancelled}
          /\ \A id \in 1..Len(timers) :
                 /\ Cardinality(EntriesOf(timerTasks_, id)) <= 1
                 /\ (id \in timerMap_ /\ ~timers[id].isCancelled) =>
                        Cardinality(EntriesOf(timerTasks_, id)) = 1
          /\ \A i \in 1..Len(timerTasks_) :
                 timerTasks_[i].at = timers[timerTasks_[i].id].nextExecutionTime)
    /\ [][\A id \in 1..Len(timers) :
              timers[id].isCancelled =>
                  /\ EntriesOf(timerTasks_', id) # {} => EntriesOf(timerTasks_, id) # {}
                  /\ id \in timerMap_' => id \in timerMap_
                  /\ \A i \in EntriesOf(timerTasks_', id) :
                         \E j \in EntriesOf(timerTasks_, id) :
                             timerTasks_'[i].at = timerTasks_[j].at]_vars

\* A cancelled repeating task has left timerTasks_ and lingers in
\* timerMap_, while a second task is in both.
C28_Witness ==
    /\ \E id \in cancelled :
           timers[id].isRepeating /\ ~InTimerTasks(id) /\ id \in timerMap_
    /\ \E id \in timerMap_ : ~timers[id].isCancelled /\ InTimerTasks(id)

\* The ids that Schedule calls hold between GenerateTimerId() and their
\* return.
HeldIds == {sched[s].id : s \in {r \in 1..NumSchedulers : sched[r].pc \in {"insert", "notify"}}}

\* C29 (SpecSched): the ids that ScheduleOnce and ScheduleRepeating return
\* on success are not 0 and differ from each other, also when the calls run
\* at the same time; the first task created gets id 1; a call that begins
\* after another has returned its id returns a greater one; and a call that
\* is refused returns 0 and takes no id: the ids given out are 1, 2, ...
\* without a gap.
C29_IdsDistinct ==
    /\ [](/\ \A k \in 1..Len(returnedIds) : returnedIds[k] # 0
          /\ \A j, k \in 1..Len(returnedIds) : j # k => returnedIds[j] # returnedIds[k]
          /\ \A r, s \in 1..NumSchedulers :
                 (r # s /\ sched[r].id # 0 /\ sched[s].id # 0) => sched[r].id # sched[s].id
          /\ {returnedIds[k] : k \in 1..Len(returnedIds)} \cup HeldIds
                 = 1..(nextTimerId_ - 1))
    /\ [][\A s \in 1..NumSchedulers :
              /\ (sched[s].pc = "idle" /\ sched'[s].pc = "insert" /\ timers = <<>>) =>
                     sched'[s].id = 1
              /\ (sched[s].pc = "idle" /\ sched'[s].pc = "returned") =>
                     sched'[s].ret = 0 /\ nextTimerId_' = nextTimerId_
              /\ (sched[s].pc = "notify" /\ sched'[s].pc = "returned") =>
                     /\ sched'[s].ret # 0
                     /\ returnedIds' = Append(returnedIds, sched'[s].ret)
                     /\ \A k \in 1..sched[s].seen : returnedIds[k] < sched'[s].ret]_vars

\* Two calls ran at the same time and returned their ids in the other
\* order, and a third call was refused.
C29_Witness ==
    /\ Len(returnedIds) = 2
    /\ returnedIds[1] > returnedIds[2]
    /\ \E s \in 1..NumSchedulers : sched[s].pc = "returned" /\ sched[s].ret = 0

\* C30 (SpecStop): a Stop() that has set shouldStop_ returns: wherever the
\* timer thread is in its loop, it exits after the notify_all(), and the
\* join returns.
C30_StopTerminates == (stopPc = "notify") ~> (stopPc = "idle")

\* In SpecStop the same holds of every run that std::terminate() does not
\* end: no notify is lost between Stop() and the timer thread.
StopReturnsOrAborts == (stopPc = "notify") ~> (stopPc = "idle" \/ aborted)

\* The key under which the task with this id stands in timerTasks_.
DeadlineOf(q, id) == q[CHOOSE i \in 1..Len(q) : q[i].id = id].at

\* The ids that the step adds to dispatched.
NewlyDispatched == SubSeq(dispatched', Len(dispatched) + 1, Len(dispatched'))

\* C31 (SpecTimer): one pass of ExecuteExpiredTimers gives the expired
\* tasks to the thread pool in the order of their deadlines, and it gives
\* no task to the pool while timerTasks_ holds a task that is not cancelled
\* and has a strictly earlier deadline, unless that task went to the pool
\* before it in the same pass.
C31_DeadlineOrder ==
    [][dispatched' # dispatched =>
          LET new == NewlyDispatched
          IN  /\ \A i, j \in 1..Len(new) :
                    i < j => DeadlineOf(timerTasks_, new[i]) <= DeadlineOf(timerTasks_, new[j])
              /\ \A j \in 1..Len(new), k \in 1..Len(timerTasks_) :
                    (/\ ~timers[timerTasks_[k].id].isCancelled
                     /\ timerTasks_[k].at < DeadlineOf(timerTasks_, new[j]))
                        => \E i \in 1..(j - 1) : new[i] = timerTasks_[k].id]_vars

\* The task scheduled second has the earlier deadline and went to the pool
\* first.
C31_Witness ==
    /\ dispatched = <<2, 1>>
    /\ timers[2].nextExecutionTime < timers[1].nextExecutionTime
    /\ ~timers[1].isRepeating
    /\ ~timers[2].isRepeating

\* C32 (SpecCancel): Cancel(id) returns true exactly when timerMap_ holds
\* the id when the call runs: false for an id that no Schedule call has
\* issued and for a one-shot task that was given to the pool, true for a
\* task that stands in timerTasks_ and for a repeating task that has fired;
\* the call changes nothing but the isCancelled flag of that task.
C32_CancelResult ==
    [][\A id \in 1..MaxTimers :
          (cancelRet' # cancelRet /\ Cancel(id)) =>
              /\ cancelRet'.ret = (id \in timerMap_)
              /\ id \notin DOMAIN timers => ~cancelRet'.ret
              /\ (id \in DOMAIN timers /\ ~timers[id].isRepeating
                    /\ Dispatches(dispatched, id) > 0) => ~cancelRet'.ret
              /\ InTimerTasks(id) => cancelRet'.ret
              /\ (id \in DOMAIN timers /\ timers[id].isRepeating
                    /\ Dispatches(dispatched, id) > 0) => cancelRet'.ret
              /\ cancelRet'.ret => timers'[id].isCancelled
              /\ \A i \in DOMAIN timers :
                    timers'[i] = IF i = id /\ cancelRet'.ret
                                 THEN [timers[i] EXCEPT !.isCancelled = TRUE]
                                 ELSE timers[i]
              /\ UNCHANGED <<running_, shouldStop_, timerTasks_, timerMap_,
                             nextTimerId_, now, twork, workerThread_, stopPc,
                             aborted, poolDown, sched, wrapQueue, wrapExec>>]_vars

\* Cancel returned true for one task, and afterwards false for a one-shot
\* task that had been given to the pool.
C32_Witness ==
    /\ cancelled # {}
    /\ cancelRet.id \in DOMAIN timers
    /\ ~cancelRet.ret
    /\ ~timers[cancelRet.id].isRepeating
    /\ Dispatches(dispatched, cancelRet.id) = 1

\* C33 (SpecCancel): after CancelAll() no callback of a task that timerMap_
\* held at the call starts, and no repeating task among them is entered
\* into timerTasks_ again.
C33_CancelAllStops ==
    [][/\ \A w \in TimerWorkers :
             (wrapExec[w].pc = "call" /\ wrapExec'[w].pc = "idle")
                 => wrapExec[w].id \notin cancelledAll
       /\ \A id \in cancelledAll :
             Cardinality(EntriesOf(timerTasks_', id))
                 <= Cardinality(EntriesOf(timerTasks_, id))]_vars

\* C34 (SpecTimer): a Schedule call enters its task into timerTasks_ and
\* timerMap_ only while running_ is true, also when Stop() runs at the
\* same time.
C34_InsertOnlyWhileRunning ==
    [][\A s \in 1..NumSchedulers :
          (sched[s].pc = "insert" /\ sched'[s].pc = "notify") => running_]_vars

\* The step gives the task with this id to the thread pool for the first
\* time.
FirstFires(id) == Dispatches(dispatched, id) = 0 /\ Dispatches(dispatched', id) > 0

AvailableTags == {availableSerialTags_[i] : i \in 1..Len(availableSerialTags_)}

\* C36 (SpecPool): in every state in which no thread holds the mutex of the
\* pool, availableSerialTags_ has no tag twice and holds exactly the tags
\* whose queue is not empty and that are not in runningSerialTags_; an
\* entry of serialTasks_ with an empty queue belongs to a tag that a worker
\* is running; no tag is in availableSerialTags_ and in runningSerialTags_.
C36_TagBookkeeping ==
    /\ \A i, j \in 1..Len(availableSerialTags_) :
          i # j => availableSerialTags_[i] # availableSerialTags_[j]
    /\ AvailableTags = {t \in SerialTags : QueueOf(t) # <<>> /\ t \notin runningSerialTags_}
    /\ \A t \in DOMAIN serialTasks_ : serialTasks_[t] = <<>> => RunningTag(t) # {}
    /\ AvailableTags \cap runningSerialTags_ = {}

\* A worker runs the only task of one tag, whose queue is empty and still
\* in the map, while two tasks of the other tag wait and that tag is
\* available.
C36_Witness ==
    \E t, u \in SerialTags :
        /\ t # u
        /\ t \in runningSerialTags_
        /\ t \in DOMAIN serialTasks_
        /\ serialTasks_[t] = <<>>
        /\ availableSerialTags_ = <<u>>
        /\ Len(QueueOf(u)) = 2

\* How often task i was started, and whether it has run to its end.
StartsOf(i) == Cardinality({k \in 1..Len(started) : started[k].id = i})

Executed(i) == StartsOf(i) > 0 /\ \A w \in Workers : threads_[w].item.id # i

C38_GeneralFirst ==
    /\ [](\A j, k \in 1..Len(started) :
             (j < k /\ started[j].tag = "" /\ started[k].tag = "")
                 => started[j].id < started[k].id)
    /\ [](\A j, k \in 1..Len(tasks_) : j < k => tasks_[j].id < tasks_[k].id)
    /\ [][\A w \in Workers :
             (threads_[w].st = "wait" /\ threads_'[w].st = "run" /\ tasks_ # <<>>) =>
                 /\ threads_'[w].item = Head(tasks_)
                 /\ tasks_' = Tail(tasks_)
                 /\ UNCHANGED <<serialTasks_, availableSerialTags_,
                                runningSerialTags_>>]_vars

\* A worker took an untagged task while a tag was available whose first
\* task had been queued before it.
C38_Witness ==
    \E w \in Workers :
        /\ threads_[w].st = "run"
        /\ threads_[w].item.tag = ""
        /\ started[Len(started)] = threads_[w].item
        /\ availableSerialTags_ # <<>>
        /\ Head(QueueOf(Head(availableSerialTags_))).id < threads_[w].item.id
        /\ \A k \in 1..Len(started) : started[k].tag # Head(availableSerialTags_)

Retained == [i \in 1..cq.size_ |-> cq.buffer_[(cq.head_ + i - 1) % cq.capacity_]]

\* C40 (SpecQueue): in every sequence of TryPush, ForcePush, TryPop and
\* Clear calls, size_ stays within 0..capacity_ and the queue holds its
\* values in the order in which they were pushed (the values are numbered
\* in that order); TryPop returns the oldest value held; ForcePush on a
\* full queue returns true, drops the oldest value and leaves size_ equal
\* to capacity_; ForcePush on a queue that is not full returns false and
\* changes the queue as a successful TryPush does.
C40_QueueOrder ==
    /\ [](0 <= cq.size_ /\ cq.size_ <= cq.capacity_)
    /\ [](\A i, j \in 1..Len(Retained) : i < j => Retained[i] < Retained[j])
    /\ [][QueueForcePush =>
             IF cq.size_ = cq.capacity_
             THEN /\ cqRet'.ok
                  /\ Retained' = Append(Tail(Retained), pushed + 1)
                  /\ cq'.size_ = cq.capacity_
             ELSE /\ ~cqRet'.ok
                  /\ Retained' = Append(Retained, pushed + 1)]_vars
    /\ [][(QueueTryPush /\ cqRet'.ok) =>
             /\ cq.size_ < cq.capacity_
             /\ Retained' = Append(Retained, pushed + 1)]_vars
    /\ [][(QueueTryPush /\ ~cqRet'.ok /\ cqRet' # cqRet) =>
             /\ cq.size_ = cq.capacity_
             /\ Retained' = Retained]_vars
    /\ [][(QueueTryPop /\ cqRet' # cqRet) =>
             IF Retained = <<>>
             THEN ~cqRet'.ok /\ Retained' = <<>>
             ELSE /\ cqRet'.ok
                  /\ cqRet'.val = Head(Retained)
                  /\ Retained' = Tail(Retained)]_vars
    /\ [][QueueClear => Retained' = <<>>]_vars

\* ForcePush on a full queue of capacity 2 returned true: the oldest value
\* is gone and the two newest are held.
C40_Witness ==
    /\ cqRet = [op |-> "ForcePush", ok |-> TRUE, val |-> 0]
    /\ cq.capacity_ = 2
    /\ cq.size_ = 2
    /\ Retained = <<2, 3>>

====
